---- MODULE Spec2Model ----
(***************************************************************************)
(* Verification model of the entity annotation engine of                   *)
(* mindmeld/auto_annotator.py: span algebra, conflict resolution, the      *)
(* rule-to-file map, the annotate/unannotate driver and the                *)
(* largest-non-overlapping span selection.                                 *)
(***************************************************************************)
EXTENDS Integers, Sequences, FiniteSets, TLC

VARIABLES
    rq_pc,        \* _annotate_query: "start" before the call, "done" after it
    rq_before,    \* processed_query.entities when _annotate_query is entered
    rq_entities,  \* processed_query.entities (assigned by _annotate_query)
    rq_items,     \* what self.parse returns for the query (items with exclusive
                  \* end); <<>> when parse is not called
    rq_types,     \* entity_types handed to _annotate_query
    rq_overwrite  \* config["overwrite"]

VARIABLES
    uq_pc,         \* _unannotate_query: "start" before the call, "done" after it
    uq_before,     \* processed_query.entities when _unannotate_query is entered
    uq_entities,   \* processed_query.entities (assigned by _unannotate_query)
    uq_remove,     \* remove_entities
    uq_only,       \* config["unannotate_supported_entities_only"]
    uq_supported   \* self.supported_entity_types of the annotator

VARIABLES
    fm_pc,         \* _get_file_entities_map: "start" before the call, "done" after
    fm_rules,      \* config[action]: the ordered rule list
    fm_supported,  \* self.supported_entity_types of the annotator
    fm_map         \* the returned file_entities_map

VARIABLES
    sp_pc,         \* _get_largest_non_overlapping_candidates: "start" / "done"
    sp_input,      \* the spans argument as passed by the caller
    sp_spans,      \* the caller's list object (sorted in place by the call)
    sp_selected    \* the returned selected_spans

VARIABLES
    dr_pc,         \* position of the annotate()/unannotate() call: "init" before
                   \* it, "loop" at the head of "for path in path_list",
                   \* "transform" inside the loop over the file's examples, "dump"
                   \* inside "with open(path, 'w')" before outfile.write,
                   \* "returned" after a normal return, "raised" after an exception
    dr_action,     \* "annotate" or "unannotate": the method called
    dr_call,       \* the call: self.config of the annotator and whether the
                   \* keyword argument unannotate_all=True was passed
    dr_config,     \* the effective config: rules_key says whether the action's key
                   \* is absent, None or a list; rules, overwrite, supported_only
    dr_content,    \* the example files on disk: path -> lines
    dr_orig,       \* the files' content before the call
    dr_map_built,  \* TRUE once _get_file_entities_map has returned
    dr_map,        \* file_entities_map
    dr_path_list,  \* path_list of _modify_queries
    dr_idx,        \* index in path_list of the file being processed
    dr_queries,    \* processed_queries of the file being processed
    dr_k,          \* index in processed_queries of the next example to transform
    dr_reads,      \* path -> number of times the file was opened for reading
    dr_writes,     \* path -> number of outfile.write calls on the file
    dr_warnings,   \* number of "field is not configured" warnings logged
    dr_skipped,    \* path -> number of "Skipping query" warnings logged
    dr_ntrans,     \* path -> number of _annotate_query/_unannotate_query calls
    dr_flushed,    \* number of lines of the dump that have reached the disk while
                   \* the file is open for writing
    dr_final       \* path -> <<processed_queries>> once the file's transform loop
                   \* has ended, <<>> before

VARIABLES
    pa_pc,         \* a recognizer's parse(): "start" before the call, "done" after
    pa_in,         \* the call: the recognizer variant, the entity_types argument
                   \* and what the variant has detected before its type filter
    pa_out         \* the list parse() returns

VARIABLES
    ef_pc,         \* _get_entities: "start" before the call, "done" after it
    ef_in,         \* the call: rule["entities"] and supported_entity_types
    ef_out         \* the returned list and the warnings logged

VARIABLES
    sy_pc,         \* a SpacyAnnotator resolution heuristic: "start" before the
                   \* call, "done" after a return, "raised" after an exception
    sy_in,         \* the call: the raw entity, the language, entity_types and
                   \* the candidates the rule-based resolver gives for its text
    sy_out         \* what the heuristic returns: <<>> for None, else <<entity>>

rqVars == <<rq_pc, rq_before, rq_entities, rq_items, rq_types, rq_overwrite>>
uqVars == <<uq_pc, uq_before, uq_entities, uq_remove, uq_only, uq_supported>>
fmVars == <<fm_pc, fm_rules, fm_supported, fm_map>>
spVars == <<sp_pc, sp_input, sp_spans, sp_selected>>

drVars == <<dr_pc, dr_action, dr_call, dr_config, dr_content, dr_orig, dr_map_built, dr_map,
           dr_path_list, dr_idx, dr_queries, dr_k, dr_reads, dr_writes,
           dr_warnings, dr_skipped, dr_ntrans, dr_flushed, dr_final>>

paVars == <<pa_pc, pa_in, pa_out>>
efVars == <<ef_pc, ef_in, ef_out>>
syVars == <<sy_pc, sy_in, sy_out>>
exVars == <<paVars, efVars, syVars>>

vars == <<rqVars, uqVars, fmVars, spVars, drVars, exVars>>

(***************************************************************************)
(* Bounds                                                                  *)
(***************************************************************************)
\* largest character offset of a sentence
MaxPos == 2
\* largest number of entities met in one _annotate_query call: those the
\* example holds before it plus the items the recognizer returns
MaxTotal == 3

\* largest number of entities of an example handed to _unannotate_query
MaxEnt == 3
\* largest number of entity types in an explicit removal list
MaxRemove == 2
\* largest number of rules in config["annotate"] / config["unannotate"]
MaxRules == 3
\* largest number of candidate spans handed to the span selection
MaxSpans == 3
\* largest number of lines of an example file
MaxLines == 2

Positions == 0..MaxPos

\* core.Span: inclusive offsets, start <= end
Spans == {s \in [start : Positions, end : Positions] : s.start <= s.end}

\* core.QueryEntity as the resolver reads it: its span and its entity type
QueryEntities ==
    {e \in [start : Positions, end : Positions, type : {"sys_time"}] : e.start <= e.end}

\* parse() items: "start" inclusive, "end" exclusive, never empty, "dim" the type
Items ==
    {i \in [start : Positions, end : 1..(MaxPos + 1), dim : {"sys_time"}] :
        i.start < i.end}

SeqsUpTo(S, n) == UNION {[1..k -> S] : k \in 0..n}

Range(f) == {f[x] : x \in DOMAIN f}

\* ResourceLoader.get_all_file_paths(): the example files of the app, in the
\* order the loader returns them
all_file_paths == <<"app/domains/d1/i1/train.txt", "app/domains/d1/i2/train.txt">>
PathSet == Range(all_file_paths)

\* entity type names as they occur in rules and in annotated examples
TypeNames == {"sys_time", "SYS_TIME", "sys_number", "bogus"}
\* the type names a recognizer may report in supported_entity_types
SupportableTypes == {"sys_time", "sys_number"}
\* the tokens of line 137 that make a rule's entity field a wildcard
WildcardTokens == {"*", ".*", ".+"}

\* str.lower() on the type names of the model
lower(name) == IF name = "SYS_TIME" THEN "sys_time" ELSE name

\* a rule of config["annotate"] / config["unannotate"]: "matches" is the set of
\* paths its compiled pattern selects, "entities" its entity field split on "|"
Rules == [matches : SUBSET PathSet,
          entities : {<<"*">>, <<"sys_time">>, <<"SYS_TIME", "sys_number">>, <<"bogus">>}]

(***************************************************************************)
(* SpanAlgebra                                                             *)
(***************************************************************************)
\* constants._no_overlap on two entities' spans
no_overlap(entity_one, entity_two) ==
    \/ entity_one.start > entity_two.end
    \/ entity_two.start > entity_one.end

\* Span.has_overlap
has_overlap(a, b) == ~no_overlap(a, b)

(***************************************************************************)
(* ConflictResolver: Annotator._resolve_conflicts                          *)
(***************************************************************************)
\* fault variant of all_no_overlaps: any() in place of all()
all_no_overlaps_any(o_entity, base_entities) ==
    \E i \in 1..Len(base_entities) : no_overlap(o_entity, base_entities[i])

\* all([_no_overlap(o_entity, b_entity) for b_entity in base_entities])
all_no_overlaps(o_entity, base_entities) ==
    \A i \in 1..Len(base_entities) : no_overlap(o_entity, base_entities[i])

\* the loop over other_entities that fills additional_entities
RECURSIVE additional_entities(_, _)
additional_entities(other_entities, base_entities) ==
    IF other_entities = <<>> THEN <<>>
    ELSE LET o_entity == Head(other_entities)
             rest == additional_entities(Tail(other_entities), base_entities)
         IN  IF all_no_overlaps(o_entity, base_entities)
             THEN <<o_entity>> \o rest
             ELSE rest

\* fault variant of resolve_conflicts: base and other exchanged
resolve_conflicts_swapped(current_entities, annotated_entities, overwrite) ==
    LET base_entities == IF overwrite THEN current_entities ELSE annotated_entities
        other_entities == IF overwrite THEN annotated_entities ELSE current_entities
    IN  base_entities \o additional_entities(other_entities, base_entities)

resolve_conflicts(current_entities, annotated_entities, overwrite) ==
    LET base_entities == IF overwrite THEN annotated_entities ELSE current_entities
        other_entities == IF overwrite THEN current_entities ELSE annotated_entities
    IN  base_entities \o additional_entities(other_entities, base_entities)

\* Annotator._item_to_query_entity: Span(start=item["start"], end=item["end"] - 1)
item_to_query_entity(item) ==
    [start |-> item.start, end |-> item.end - 1, type |-> item.dim]

\* Annotator._get_annotated_entities; items is the return value of self.parse
get_annotated_entities(items, entity_types) ==
    IF Len(entity_types) = 0 THEN <<>>
    ELSE [k \in 1..Len(items) |-> item_to_query_entity(items[k])]

\* fault variant of annotate_query: the recognizer's entities are appended
\* without conflict resolution
annotate_query_appends(entities, items, entity_types, overwrite) ==
    entities \o get_annotated_entities(items, entity_types)

\* Annotator._annotate_query: the new value of processed_query.entities
annotate_query(entities, items, entity_types, overwrite) ==
    resolve_conflicts(entities,
                      get_annotated_entities(items, entity_types),
                      overwrite)

(***************************************************************************)
(* Unannotate: Annotator.valid_entity_check, Annotator._unannotate_query   *)
(***************************************************************************)
\* Annotator.valid_entity_check
valid_entity_check(entity, supported_entity_types) ==
    lower(entity) \in supported_entity_types

\* fault variant of keep_entity: the wildcard branch ignores the flag
keep_entity_flag_ignored(query_entity, remove_entities, remove_supported_only, supported) ==
    IF remove_entities = <<"*">>
    THEN ~valid_entity_check(query_entity.type, supported)
    ELSE query_entity.type \notin Range(remove_entities)

\* the body of the loop of _unannotate_query: TRUE when the entity is appended
\* to keep_entities
keep_entity(query_entity, remove_entities, remove_supported_only, supported) ==
    IF remove_entities = <<"*">>
    THEN remove_supported_only /\ ~valid_entity_check(query_entity.type, supported)
    ELSE query_entity.type \notin Range(remove_entities)

\* Annotator._unannotate_query: the new value of processed_query.entities
RECURSIVE unannotate_query(_, _, _, _)
unannotate_query(entities, remove_entities, remove_supported_only, supported) ==
    IF entities = <<>> THEN <<>>
    ELSE LET rest == unannotate_query(Tail(entities), remove_entities,
                                      remove_supported_only, supported)
         IN  IF keep_entity(Head(entities), remove_entities,
                            remove_supported_only, supported)
             THEN <<Head(entities)>> \o rest
             ELSE rest

(***************************************************************************)
(* RuleEngine: Annotator._get_entities, Annotator._get_file_entities_map   *)
(***************************************************************************)
\* the loop of _get_entities over the split tokens
RECURSIVE valid_entities(_, _)
valid_entities(tokens, supported) ==
    IF tokens = <<>> THEN <<>>
    ELSE IF valid_entity_check(Head(tokens), supported)
         THEN <<Head(tokens)>> \o valid_entities(Tail(tokens), supported)
         ELSE valid_entities(Tail(tokens), supported)

\* Annotator._get_entities
get_entities(rule, supported) ==
    IF Len(rule.entities) = 1 /\ rule.entities[1] \in WildcardTokens
    THEN <<"*">>
    ELSE valid_entities(rule.entities, supported)

\* ResourceLoader.filter_file_paths with the rule's compiled pattern
filter_file_paths(rule, file_paths) ==
    SelectSeq(file_paths, LAMBDA path : path \in rule.matches)

\* file_entities_map = {path: [] for path in all_file_paths}
empty_file_entities_map == [path \in PathSet |-> <<>>]

\* fault variant of the rule loop: a matching rule extends the entry
RECURSIVE apply_rules_union(_, _, _)
apply_rules_union(rules, supported, file_entities_map) ==
    IF rules = <<>> THEN file_entities_map
    ELSE LET filtered_paths == Range(filter_file_paths(Head(rules), all_file_paths))
         IN  apply_rules_union(Tail(rules), supported,
                 [path \in PathSet |->
                     IF path \in filtered_paths
                     THEN file_entities_map[path] \o get_entities(Head(rules), supported)
                     ELSE file_entities_map[path]])

get_file_entities_map_union(rules, supported) ==
    apply_rules_union(rules, supported, empty_file_entities_map)

\* the loop "for rule in rules" of _get_file_entities_map
RECURSIVE apply_rules(_, _, _)
apply_rules(rules, supported, file_entities_map) ==
    IF rules = <<>> THEN file_entities_map
    ELSE LET filtered_paths == Range(filter_file_paths(Head(rules), all_file_paths))
         IN  apply_rules(Tail(rules), supported,
                 [path \in PathSet |->
                     IF path \in filtered_paths
                     THEN get_entities(Head(rules), supported)
                     ELSE file_entities_map[path]])

\* Annotator._get_file_entities_map
get_file_entities_map(rules, supported) ==
    apply_rules(rules, supported, empty_file_entities_map)

(***************************************************************************)
(* RuleRecognizer: the largest-non-overlapping span selection              *)
(***************************************************************************)
\* the order of Span objects used by list.sort: by (start, end)
span_lt(a, b) == a.start < b.start \/ (a.start = b.start /\ a.end < b.end)

RECURSIVE insert_descending(_, _)
insert_descending(span, sorted) ==
    IF sorted = <<>> THEN <<span>>
    ELSE IF span_lt(Head(sorted), span)
         THEN <<span>> \o sorted
         ELSE <<Head(sorted)>> \o insert_descending(span, Tail(sorted))

\* spans.sort(reverse=True)
RECURSIVE sort_reverse(_)
sort_reverse(spans) ==
    IF spans = <<>> THEN <<>>
    ELSE insert_descending(Head(spans), sort_reverse(Tail(spans)))

\* fault variant of any_has_overlaps: only the first selected span is tested
any_has_overlaps_first_only(span, selected_spans) ==
    selected_spans # <<>> /\ has_overlap(span, selected_spans[1])

\* any([span.has_overlap(selected_span) for selected_span in selected_spans])
any_has_overlaps(span, selected_spans) ==
    \E i \in 1..Len(selected_spans) : has_overlap(span, selected_spans[i])

\* the loop "for span in spans" of _get_largest_non_overlapping_candidates
RECURSIVE select_spans(_, _)
select_spans(spans, selected_spans) ==
    IF spans = <<>> THEN selected_spans
    ELSE select_spans(Tail(spans),
                      IF ~any_has_overlaps(Head(spans), selected_spans)
                      THEN Append(selected_spans, Head(spans))
                      ELSE selected_spans)

\* NoTranslationDucklingAnnotator._get_largest_non_overlapping_candidates
get_largest_non_overlapping_candidates(spans) ==
    select_spans(sort_reverse(spans), <<>>)

(***************************************************************************)
(* AnnotationDriver: annotate, unannotate, _modify_queries,                *)
(* _get_processed_queries                                                  *)
(***************************************************************************)
\* a line of an example file: markup that load_query parses ("ok", with the
\* entities it annotates) or markup on which load_query raises MarkupError
BadLine == [markup |-> "bad", entities |-> <<>>]
ExampleLines ==
    {[markup |-> "ok", entities |-> es] :
        es \in {<<>>, <<[start |-> 0, end |-> 1, type |-> "sys_time"],
                        [start |-> 2, end |-> 2, type |-> "sys_number"]>>}}
Lines == {BadLine} \cup ExampleLines

\* what the annotator's parse may return for a sentence of an example file
DrItemLists == {<<>>, <<[start |-> 1, end |-> 3, dim |-> "sys_time"]>>}

\* supported_entity_types of the annotator that runs the batch
DrSupported == {"sys_time"}

\* a rule on whose pattern re.compile raises ("compiles" is FALSE); such a
\* pattern selects no path
DrBadRule == [matches |-> {}, entities |-> <<"*">>, compiles |-> FALSE]
\* the rules of the batch runs
DrRules ==
    {r \in [matches : SUBSET PathSet,
            entities : {<<"*">>, <<"sys_time">>, <<"bogus">>},
            compiles : BOOLEAN] : ~r.compiles => r = DrBadRule}
\* the rule lists of the batch runs: no rule, one rule, or a rule that selects
\* every file followed by one whose pattern does not compile
DrRuleLists ==
    {<<>>} \cup {<<r>> : r \in DrRules}
           \cup {<<r, DrBadRule>> : r \in {q \in DrRules : q.matches = PathSet}}
\* the rule lists of self.config in the calls that pass unannotate_all=True
DrOverriddenRuleLists ==
    {<<>>, <<DrBadRule>>,
     <<[matches |-> PathSet, entities |-> <<"sys_time">>, compiles |-> TRUE]>>}

\* the rule unannotate() installs for unannotate_all: domains, intents, files
\* and entities all ".*"
unannotate_all_rule == [matches |-> PathSet, entities |-> <<".*">>, compiles |-> TRUE]

\* fault variant of effective_config: unannotate_all installs the rule but
\* leaves unannotate_supported_entities_only as configured
effective_config_flag_kept(action, config, unannotate_all) ==
    IF unannotate_all /\ action = "unannotate"
    THEN [rules_key |-> "list", rules |-> <<unannotate_all_rule>>,
          overwrite |-> config.overwrite, supported_only |-> config.supported_only]
    ELSE config

\* the loop over kwargs of annotate()/unannotate(), for a call whose only
\* keyword argument, if any, is unannotate_all=True
effective_config(action, config, unannotate_all) ==
    IF unannotate_all /\ action = "unannotate"
    THEN [rules_key |-> "list", rules |-> <<unannotate_all_rule>>,
          overwrite |-> config.overwrite, supported_only |-> FALSE]
    ELSE config

\* fault variant of compile_fails: only the first rule's pattern is compiled
\* before the files are processed
compile_fails_first_rule_only(rules) == rules # <<>> /\ ~rules[1].compiles

\* re.compile(pattern) raises for some rule of the list
compile_fails(rules) == \E k \in 1..Len(rules) : ~rules[k].compiles

\* markup.load_query on a line that parses
load_query(line) == [entities |-> line.entities]

\* markup.dump_query
dump_query(processed_query) == [markup |-> "ok", entities |-> processed_query.entities]

\* fault variant of dump_queries: examples without entities are not written
dump_queries_annotated_only(processed_queries) ==
    LET annotated == SelectSeq(processed_queries, LAMBDA q : q.entities # <<>>)
    IN  [k \in 1..Len(annotated) |-> dump_query(annotated[k])]

\* list(dump_queries(processed_queries)): the lines outfile.write receives
dump_queries(processed_queries) ==
    [k \in 1..Len(processed_queries) |-> dump_query(processed_queries[k])]

\* fault variant of _get_processed_queries: a line that fails to parse is
\* passed through as an example
RECURSIVE get_processed_queries_pass_through(_)
get_processed_queries_pass_through(queries) ==
    IF queries = <<>> THEN <<>>
    ELSE <<load_query(Head(queries))>> \o get_processed_queries_pass_through(Tail(queries))

\* Annotator._get_processed_queries: the loop over the lines read
RECURSIVE get_processed_queries(_)
get_processed_queries(queries) ==
    IF queries = <<>> THEN <<>>
    ELSE IF Head(queries).markup = "ok"
         THEN <<load_query(Head(queries))>> \o get_processed_queries(Tail(queries))
         ELSE get_processed_queries(Tail(queries))

\* the "Skipping query" warnings of _get_processed_queries
RECURSIVE skipped_queries(_)
skipped_queries(queries) ==
    IF queries = <<>> THEN 0
    ELSE (IF Head(queries).markup = "ok" THEN 0 ELSE 1) + skipped_queries(Tail(queries))

\* fault variant of open_for_writing: the file is opened without truncation
open_without_truncating(lines) == lines

\* open(path, "w"): what is left of the file's lines once it is open
open_for_writing(lines) == <<>>

\* fault variant of select_paths: files with an empty entity list are kept
select_paths_unfiltered(file_entities_map) == all_file_paths

\* path_list = [p for p in file_entities_map if file_entities_map[p]]
select_paths(file_entities_map) ==
    SelectSeq(all_file_paths, LAMBDA path : file_entities_map[path] # <<>>)

\* "not config[action]": the key holds None or an empty list
rules_falsy(config) ==
    config.rules_key = "none" \/ (config.rules_key = "list" /\ config.rules = <<>>)

\* the parse results an annotator may give when asked for entity_types
parse_outputs(entity_types) ==
    IF Len(entity_types) = 0 THEN {<<>>}
    ELSE {items \in DrItemLists :
            \/ entity_types = <<"*">>
            \/ \A k \in 1..Len(items) : items[k].dim \in Range(entity_types)}

(***************************************************************************)
(* Values of the variables a specification does not use                    *)
(***************************************************************************)
RqIdle ==
    /\ rq_pc = "idle" /\ rq_before = <<>> /\ rq_entities = <<>>
    /\ rq_items = <<>> /\ rq_types = <<>> /\ rq_overwrite = FALSE

UqIdle ==
    /\ uq_pc = "idle" /\ uq_before = <<>> /\ uq_entities = <<>>
    /\ uq_remove = <<>> /\ uq_only = FALSE /\ uq_supported = {}

FmIdle ==
    /\ fm_pc = "idle" /\ fm_rules = <<>> /\ fm_supported = {}
    /\ fm_map = empty_file_entities_map

SpIdle ==
    /\ sp_pc = "idle" /\ sp_input = <<>> /\ sp_spans = <<>> /\ sp_selected = <<>>

DrIdle ==
    /\ dr_pc = "idle" /\ dr_action = "none"
    /\ dr_call = [self_config |-> [rules_key |-> "list", rules |-> <<>>,
                                   overwrite |-> FALSE, supported_only |-> FALSE],
                  unannotate_all |-> FALSE]
    /\ dr_config = [rules_key |-> "list", rules |-> <<>>,
                    overwrite |-> FALSE, supported_only |-> FALSE]
    /\ dr_content = [path \in PathSet |-> <<>>]
    /\ dr_orig = dr_content
    /\ dr_map_built = FALSE /\ dr_map = empty_file_entities_map
    /\ dr_path_list = <<>> /\ dr_idx = 0 /\ dr_queries = <<>> /\ dr_k = 0
    /\ dr_reads = [path \in PathSet |-> 0]
    /\ dr_writes = [path \in PathSet |-> 0]
    /\ dr_warnings = 0
    /\ dr_skipped = [path \in PathSet |-> 0]
    /\ dr_ntrans = [path \in PathSet |-> 0]
    /\ dr_flushed = 0
    /\ dr_final = [path \in PathSet |-> <<>>]

PaIdle ==
    /\ pa_pc = "idle"
    /\ pa_in = [variant |-> "none", entity_types |-> [none |-> TRUE, list |-> <<>>],
                model |-> <<>>, rule |-> <<>>]
    /\ pa_out = <<>>

EfIdle ==
    /\ ef_pc = "idle"
    /\ ef_in = [field |-> <<>>, supported |-> {}]
    /\ ef_out = [entities |-> <<>>, warnings |-> 0]

SyIdle ==
    /\ sy_pc = "idle"
    /\ sy_in = [heuristic |-> "none", language |-> "en",
                entity_types |-> [none |-> TRUE, list |-> <<>>],
                entity |-> [body |-> <<>>, start |-> 0, end |-> 0, dim |-> "none",
                            value |-> [type |-> "absent", holds |-> "text",
                                       text |-> <<>>, num |-> 0, den |-> 1,
                                       float |-> FALSE]],
                candidates |-> <<>>]
    /\ sy_out = <<>>

ExIdle == PaIdle /\ EfIdle /\ SyIdle

(***************************************************************************)
(* SpecResolve: one _annotate_query call on arbitrary inputs               *)
(***************************************************************************)
RqInit ==
    /\ rq_pc = "start"
    /\ rq_before \in SeqsUpTo(QueryEntities, MaxTotal)
    /\ rq_entities = rq_before
    /\ rq_types \in {<<>>, <<"*">>}
    /\ rq_items \in (IF rq_types = <<>> THEN {<<>>}
                     ELSE SeqsUpTo(Items, MaxTotal - Len(rq_before)))
    /\ rq_overwrite \in BOOLEAN
    /\ UqIdle /\ FmIdle /\ SpIdle /\ DrIdle /\ ExIdle

RqAnnotateQuery ==
    /\ rq_pc = "start"
    /\ rq_entities' = annotate_query(rq_entities, rq_items, rq_types, rq_overwrite)
    /\ rq_pc' = "done"
    /\ UNCHANGED <<rq_before, rq_items, rq_types, rq_overwrite>>
    /\ UNCHANGED <<uqVars, fmVars, spVars, drVars, exVars>>

\* a second _annotate_query call on the same example: the recognizer is
\* deterministic and returns the same items for the unchanged text
RqAnnotateQueryAgain ==
    /\ rq_pc = "done"
    /\ rq_entities' = annotate_query(rq_entities, rq_items, rq_types, rq_overwrite)
    /\ rq_pc' = "again"
    /\ UNCHANGED <<rq_before, rq_items, rq_types, rq_overwrite>>
    /\ UNCHANGED <<uqVars, fmVars, spVars, drVars, exVars>>

RqNext ==
    \/ RqAnnotateQuery
    \/ RqAnnotateQueryAgain

SpecResolve == RqInit /\ [][RqNext]_vars

(***************************************************************************)
(* SpecUnannotate: one _unannotate_query call on arbitrary inputs          *)
(***************************************************************************)
\* the entities of an example with the given types, left to right in the text
EntitiesOfTypes(types) ==
    [k \in 1..Len(types) |-> [start |-> k - 1, end |-> k - 1, type |-> types[k]]]

UqInit ==
    /\ uq_pc = "start"
    /\ \E types \in SeqsUpTo(TypeNames, MaxEnt) : uq_before = EntitiesOfTypes(types)
    /\ uq_entities = uq_before
    /\ uq_remove \in {<<"*">>} \cup SeqsUpTo(TypeNames, MaxRemove)
    /\ uq_only \in BOOLEAN
    /\ uq_supported \in SUBSET SupportableTypes
    /\ RqIdle /\ FmIdle /\ SpIdle /\ DrIdle /\ ExIdle

UqUnannotateQuery ==
    /\ uq_pc = "start"
    /\ uq_entities' = unannotate_query(uq_entities, uq_remove, uq_only, uq_supported)
    /\ uq_pc' = "done"
    /\ UNCHANGED <<uq_before, uq_remove, uq_only, uq_supported>>
    /\ UNCHANGED <<rqVars, fmVars, spVars, drVars, exVars>>

UqNext == UqUnannotateQuery

SpecUnannotate == UqInit /\ [][UqNext]_vars

(***************************************************************************)
(* SpecRules: one _get_file_entities_map call on arbitrary rule lists      *)
(***************************************************************************)
FmInit ==
    /\ fm_pc = "start"
    /\ fm_rules \in SeqsUpTo(Rules, MaxRules)
    /\ fm_supported \in SUBSET SupportableTypes
    /\ fm_map = empty_file_entities_map
    /\ RqIdle /\ UqIdle /\ SpIdle /\ DrIdle /\ ExIdle

FmGetFileEntitiesMap ==
    /\ fm_pc = "start"
    /\ fm_map' = get_file_entities_map(fm_rules, fm_supported)
    /\ fm_pc' = "done"
    /\ UNCHANGED <<fm_rules, fm_supported>>
    /\ UNCHANGED <<rqVars, uqVars, spVars, drVars, exVars>>

FmNext == FmGetFileEntitiesMap

SpecRules == FmInit /\ [][FmNext]_vars

(***************************************************************************)
(* SpecSpans: one span selection on an arbitrary list of spans             *)
(***************************************************************************)
SpInit ==
    /\ sp_pc = "start"
    /\ sp_input \in SeqsUpTo(Spans, MaxSpans)
    /\ sp_spans = sp_input
    /\ sp_selected = <<>>
    /\ RqIdle /\ UqIdle /\ FmIdle /\ DrIdle /\ ExIdle

SpSelect ==
    /\ sp_pc = "start"
    /\ sp_spans' = sort_reverse(sp_spans)
    /\ sp_selected' = get_largest_non_overlapping_candidates(sp_spans)
    /\ sp_pc' = "done"
    /\ UNCHANGED sp_input
    /\ UNCHANGED <<rqVars, uqVars, fmVars, drVars, exVars>>

SpNext == SpSelect

SpecSpans == SpInit /\ [][SpNext]_vars

(***************************************************************************)
(* SpecDriver: one annotate() or unannotate() run over the example files   *)
(***************************************************************************)
DrInit ==
    /\ dr_pc = "init"
    /\ dr_action \in {"annotate", "unannotate"}
    /\ \E key \in {"absent", "none", "list"}, flag \in BOOLEAN,
          all \in (IF dr_action = "unannotate" THEN BOOLEAN ELSE {FALSE}) :
         \E rules \in (IF key # "list" THEN {<<>>}
                       ELSE IF all THEN DrOverriddenRuleLists ELSE DrRuleLists) :
            \* the flag the called method does not read is left at FALSE
               dr_call = [self_config |->
                             [rules_key |-> key, rules |-> rules,
                              overwrite |-> (dr_action = "annotate" /\ flag),
                              supported_only |-> (dr_action = "unannotate" /\ flag)],
                          unannotate_all |-> all]
    /\ dr_config = effective_config(dr_action, dr_call.self_config,
                                    dr_call.unannotate_all)
    /\ dr_content \in [PathSet -> SeqsUpTo(Lines, MaxLines)]
    /\ dr_orig = dr_content
    /\ dr_map_built = FALSE /\ dr_map = empty_file_entities_map
    /\ dr_path_list = <<>> /\ dr_idx = 0 /\ dr_queries = <<>> /\ dr_k = 0
    /\ dr_reads = [path \in PathSet |-> 0]
    /\ dr_writes = [path \in PathSet |-> 0]
    /\ dr_warnings = 0
    /\ dr_skipped = [path \in PathSet |-> 0]
    /\ dr_ntrans = [path \in PathSet |-> 0]
    /\ dr_flushed = 0
    /\ dr_final = [path \in PathSet |-> <<>>]
    /\ RqIdle /\ UqIdle /\ FmIdle /\ SpIdle /\ ExIdle

DrFrame ==
    UNCHANGED <<rqVars, uqVars, fmVars, spVars, exVars, dr_action, dr_call, dr_config,
                dr_orig>>

\* the path of path_list being processed
DrPath == dr_path_list[dr_idx]

\* annotate()/unannotate() with the action's key absent: config[key] raises KeyError
DrCallKeyError ==
    /\ dr_pc = "init"
    /\ dr_config.rules_key = "absent"
    /\ dr_pc' = "raised"
    /\ UNCHANGED <<dr_content, dr_map_built, dr_map, dr_path_list, dr_idx, dr_queries,
                   dr_k, dr_reads, dr_writes, dr_warnings, dr_skipped, dr_ntrans,
                   dr_final, dr_flushed>>
    /\ DrFrame

\* annotate()/unannotate() with a falsy rule list: warning and return
DrCallNoRules ==
    /\ dr_pc = "init"
    /\ dr_config.rules_key # "absent"
    /\ rules_falsy(dr_config)
    /\ dr_warnings' = dr_warnings + 1
    /\ dr_pc' = "returned"
    /\ UNCHANGED <<dr_content, dr_map_built, dr_map, dr_path_list, dr_idx, dr_queries,
                   dr_k, dr_reads, dr_writes, dr_skipped, dr_ntrans, dr_final, dr_flushed>>
    /\ DrFrame

\* annotate()/unannotate() with a rule whose pattern does not compile:
\* re.compile raises inside _get_file_entities_map
DrCallBadPattern ==
    /\ dr_pc = "init"
    /\ dr_config.rules_key # "absent"
    /\ ~rules_falsy(dr_config)
    /\ compile_fails(dr_config.rules)
    /\ dr_pc' = "raised"
    /\ UNCHANGED <<dr_content, dr_map_built, dr_map, dr_path_list, dr_idx, dr_queries,
                   dr_k, dr_reads, dr_writes, dr_warnings, dr_skipped, dr_ntrans,
                   dr_final, dr_flushed>>
    /\ DrFrame

\* annotate()/unannotate() with rules: build the map, enter _modify_queries
DrCallBuildMap ==
    /\ dr_pc = "init"
    /\ dr_config.rules_key # "absent"
    /\ ~rules_falsy(dr_config)
    /\ ~compile_fails(dr_config.rules)
    /\ dr_map' = get_file_entities_map(dr_config.rules, DrSupported)
    /\ dr_map_built' = TRUE
    /\ dr_path_list' = select_paths(dr_map')
    /\ dr_idx' = 1
    /\ dr_pc' = "loop"
    /\ UNCHANGED <<dr_content, dr_queries, dr_k, dr_reads, dr_writes, dr_warnings,
                   dr_skipped, dr_ntrans, dr_final, dr_flushed>>
    /\ DrFrame

\* _get_processed_queries on the next path of path_list
DrLoad ==
    /\ dr_pc = "loop"
    /\ dr_idx <= Len(dr_path_list)
    /\ LET path == dr_path_list[dr_idx]
       IN  /\ dr_reads' = [dr_reads EXCEPT ![path] = @ + 1]
           /\ dr_queries' = get_processed_queries(dr_content[path])
           /\ dr_skipped' = [dr_skipped EXCEPT ![path] = @ + skipped_queries(dr_content[path])]
    /\ dr_k' = 1
    /\ dr_pc' = "transform"
    /\ UNCHANGED <<dr_content, dr_map_built, dr_map, dr_path_list, dr_idx, dr_writes,
                   dr_warnings, dr_ntrans, dr_final, dr_flushed>>
    /\ DrFrame

\* one iteration of the loop over processed_queries, action ANNOTATE
DrAnnotateExample ==
    /\ dr_pc = "transform"
    /\ dr_k <= Len(dr_queries)
    /\ dr_action = "annotate"
    /\ LET path == dr_path_list[dr_idx]
           entity_types == dr_map[path]
       IN  /\ \E items \in parse_outputs(entity_types) :
                dr_queries' = [dr_queries EXCEPT ![dr_k] =
                    [entities |-> annotate_query(dr_queries[dr_k].entities, items,
                                                 entity_types, dr_config.overwrite)]]
           /\ dr_ntrans' = [dr_ntrans EXCEPT ![path] = @ + 1]
    /\ dr_k' = dr_k + 1
    /\ UNCHANGED <<dr_pc, dr_content, dr_map_built, dr_map, dr_path_list, dr_idx,
                   dr_reads, dr_writes, dr_warnings, dr_skipped, dr_final, dr_flushed>>
    /\ DrFrame

\* one iteration of the loop over processed_queries, action UNANNOTATE
DrUnannotateExample ==
    /\ dr_pc = "transform"
    /\ dr_k <= Len(dr_queries)
    /\ dr_action = "unannotate"
    /\ LET path == dr_path_list[dr_idx]
           remove_entities == dr_map[path]
       IN  /\ dr_queries' = [dr_queries EXCEPT ![dr_k] =
                    [entities |-> unannotate_query(dr_queries[dr_k].entities,
                                      remove_entities, dr_config.supported_only,
                                      DrSupported)]]
           /\ dr_ntrans' = [dr_ntrans EXCEPT ![path] = @ + 1]
    /\ dr_k' = dr_k + 1
    /\ UNCHANGED <<dr_pc, dr_content, dr_map_built, dr_map, dr_path_list, dr_idx,
                   dr_reads, dr_writes, dr_warnings, dr_skipped, dr_final, dr_flushed>>
    /\ DrFrame

\* open(path, "w") after the loop over the examples: the file is truncated
DrOpen ==
    /\ dr_pc = "transform"
    /\ dr_k > Len(dr_queries)
    /\ dr_content' = [dr_content EXCEPT ![DrPath] = open_for_writing(@)]
    /\ dr_final' = [dr_final EXCEPT ![DrPath] = <<dr_queries>>]
    /\ dr_flushed' = 0
    /\ dr_pc' = "dump"
    /\ UNCHANGED <<dr_map_built, dr_map, dr_path_list, dr_idx, dr_queries, dr_k,
                   dr_reads, dr_writes, dr_warnings, dr_skipped, dr_ntrans>>
    /\ DrFrame

\* inside outfile.write: the buffered writer hands a further part of the dump
\* to the disk before the write has completed
DrFlush ==
    /\ dr_pc = "dump"
    /\ dr_flushed + 1 < Len(dump_queries(dr_queries))
    /\ dr_flushed' = dr_flushed + 1
    /\ dr_content' = [dr_content EXCEPT ![DrPath] =
            open_for_writing(dr_orig[DrPath])
                \o SubSeq(dump_queries(dr_queries), 1, dr_flushed')]
    /\ UNCHANGED <<dr_pc, dr_map_built, dr_map, dr_path_list, dr_idx, dr_queries, dr_k,
                   dr_reads, dr_writes, dr_warnings, dr_skipped, dr_ntrans, dr_final>>
    /\ DrFrame

\* outfile.write("".join(list(dump_queries(processed_queries)))); outfile.close()
DrWrite ==
    /\ dr_pc = "dump"
    /\ dr_content' = [dr_content EXCEPT ![DrPath] =
            open_for_writing(dr_orig[DrPath]) \o dump_queries(dr_queries)]
    /\ dr_writes' = [dr_writes EXCEPT ![DrPath] = @ + 1]
    /\ dr_flushed' = 0
    /\ dr_idx' = dr_idx + 1
    /\ dr_pc' = "loop"
    /\ UNCHANGED <<dr_map_built, dr_map, dr_path_list, dr_queries, dr_k, dr_reads,
                   dr_warnings, dr_skipped, dr_ntrans, dr_final>>
    /\ DrFrame

\* path_list is exhausted: _modify_queries and the call return
DrReturn ==
    /\ dr_pc = "loop"
    /\ dr_idx > Len(dr_path_list)
    /\ dr_pc' = "returned"
    /\ UNCHANGED <<dr_content, dr_map_built, dr_map, dr_path_list, dr_idx, dr_queries,
                   dr_k, dr_reads, dr_writes, dr_warnings, dr_skipped, dr_ntrans,
                   dr_final, dr_flushed>>
    /\ DrFrame

DrNext ==
    \/ DrCallKeyError
    \/ DrCallNoRules
    \/ DrCallBadPattern
    \/ DrCallBuildMap
    \/ DrLoad
    \/ DrAnnotateExample
    \/ DrUnannotateExample
    \/ DrOpen
    \/ DrFlush
    \/ DrWrite
    \/ DrReturn

SpecDriver == DrInit /\ [][DrNext]_vars

(***************************************************************************)
(* Recognizers: the entity_types filter of parse() and the merge of        *)
(* MultiLingualAnnotator.parse                                             *)
(***************************************************************************)
\* largest number of entities the recognizers detect in one parse() call
MaxDetected == 2

\* the entity types of the recognizers' output
ParseTypes == {"sys_time", "sys_number"}

\* entity dictionaries of parse(): "start" inclusive, "end" exclusive (spaCy's
\* end_char), never empty
EntityDicts ==
    {e \in [start : Positions, end : 1..(MaxPos + 1), dim : ParseTypes] :
        e.start < e.end}

\* candidates of the rule-based resolver as the duckling variants filter them
DucklingCandidates ==
    {c \in [start : Positions, end : 1..(MaxPos + 1), entity_type : ParseTypes] :
        c.start < c.end}

\* the entity_types argument of parse(): None or a list
NoEntityTypes == [none |-> TRUE, list |-> <<>>]
EntityTypesArgs ==
    {NoEntityTypes} \cup
    {[none |-> FALSE, list |-> l] :
        l \in {<<>>, <<"sys_time">>, <<"sys_number">>, <<"sys_time", "sys_number">>}}

\* "if entity_types:": neither None nor an empty list
entity_types_truthy(entity_types) ==
    ~entity_types.none /\ entity_types.list # <<>>

\* SpacyAnnotator.parse, lines 597-600: entities is the list the resolution
\* loop has built
spacy_parse(entities, entity_types) ==
    IF entity_types_truthy(entity_types)
    THEN SelectSeq(entities, LAMBDA e : e["dim"] \in Range(entity_types.list))
    ELSE entities

\* fault variant of filter_final_candidates: the filter is skipped
filter_final_candidates_skipped(final_candidates, entity_types) == final_candidates

\* "if entity_types: final_candidates = [e for e in final_candidates
\*  if e["entity_type"] in entity_types]"
filter_final_candidates(final_candidates, entity_types) ==
    IF entity_types_truthy(entity_types)
    THEN SelectSeq(final_candidates,
                   LAMBDA e : e["entity_type"] \in Range(entity_types.list))
    ELSE final_candidates

\* system_entity_recognizer.duckling_item_to_entity_dict
duckling_item_to_entity_dict(candidate) ==
    [start |-> candidate.start, end |-> candidate.end, dim |-> candidate.entity_type]

\* NoTranslationDucklingAnnotator.parse, lines 968-974: final_candidates is the
\* list the span selection has kept
no_translation_duckling_parse(final_candidates, entity_types) ==
    LET kept == filter_final_candidates(final_candidates, entity_types)
    IN  [k \in 1..Len(kept) |-> duckling_item_to_entity_dict(kept[k])]

\* TranslationDucklingAnnotator.parse, lines 1109-1115: final_candidates is the
\* list the alignment loop has built
translation_duckling_parse(final_candidates, entity_types) ==
    LET kept == filter_final_candidates(final_candidates, entity_types)
    IN  [k \in 1..Len(kept) |-> duckling_item_to_entity_dict(kept[k])]

\* MultiLingualAnnotator._no_overlap_entity_dicts
no_overlap_entity_dicts(entity_one, entity_two) ==
    \/ entity_one["start"] > entity_two["end"]
    \/ entity_two["start"] > entity_one["end"]

\* the loop of _resolve_conflicts_entity_dicts over other_entities
RECURSIVE non_overlapping_other_entities(_, _)
non_overlapping_other_entities(other_entities, base_entities) ==
    IF other_entities = <<>> THEN <<>>
    ELSE LET o_entity == Head(other_entities)
             rest == non_overlapping_other_entities(Tail(other_entities), base_entities)
         IN  IF \A i \in 1..Len(base_entities) :
                    no_overlap_entity_dicts(o_entity, base_entities[i])
             THEN <<o_entity>> \o rest
             ELSE rest

\* MultiLingualAnnotator._resolve_conflicts_entity_dicts
resolve_conflicts_entity_dicts(base_entities, other_entities) ==
    base_entities \o non_overlapping_other_entities(other_entities, base_entities)

\* MultiLingualAnnotator.parse: entities is what the language's SpacyAnnotator
\* has resolved, final_candidates what its duckling annotator has kept
multilingual_parse(language, entities, final_candidates, entity_types) ==
    IF language = "en"
    THEN spacy_parse(entities, entity_types)
    ELSE resolve_conflicts_entity_dicts(
             spacy_parse(entities, entity_types),
             no_translation_duckling_parse(final_candidates, entity_types))

\* the sentence given to the translating variant, in its own language
translation_sentence == SubSeq(<<"n", "1", "5", "m", "s">>, 1, MaxPos + 1)

\* translator.translate(body, target_language=self.language) on the texts of
\* the English entities: "A" and "AB" are the translations of the first
\* character and of the first two characters of the sentence, "C" translates to
\* a text that does not occur in it
translate_to_language(body) ==
    CASE body = "A" -> SubSeq(translation_sentence, 1, 1)
      [] body = "AB" -> SubSeq(translation_sentence, 1, 2)
      [] OTHER -> <<"z">>

\* the entities the English annotator returns for the translated sentence
EnglishEntities ==
    [dim : ParseTypes, value : {"v1", "v2"}, body : {"A", "AB", "C"}]

\* the candidates of the rule-based resolver over the original sentence: a
\* candidate covers characters of the sentence from its start on
AlignmentCandidates ==
    {[start |-> 0, end |-> end, entity_type |-> type, value |-> value,
      body |-> SubSeq(translation_sentence, 1, end)] :
        end \in 1..(MaxPos + 1), type \in ParseTypes, value \in {"v1", "v2"}}

\* max(value_matched_candidates, key=lambda x: len(x["body"])): the first of
\* the longest
RECURSIVE max_by_body_length(_)
max_by_body_length(value_matched_candidates) ==
    IF Len(value_matched_candidates) = 1 THEN value_matched_candidates[1]
    ELSE LET rest == max_by_body_length(Tail(value_matched_candidates))
         IN  IF Len(Head(value_matched_candidates)["body"]) >= Len(rest["body"])
             THEN Head(value_matched_candidates) ELSE rest

\* the loop of TranslationDucklingAnnotator.parse over the candidates, for one
\* English entity, and the step after it: final_candidates with what the
\* entity contributes
RECURSIVE align_candidates(_, _, _, _)
align_candidates(entity, candidates, value_matched_candidates, final_candidates) ==
    IF candidates = <<>>
    THEN IF value_matched_candidates # <<>>
         THEN Append(final_candidates, max_by_body_length(value_matched_candidates))
         ELSE final_candidates
    ELSE LET candidate == Head(candidates)
             matched == IF /\ entity["dim"] = candidate["entity_type"]
                           /\ entity["value"] = candidate["value"]
                        THEN Append(value_matched_candidates, candidate)
                        ELSE value_matched_candidates
         IN  IF entity["dim"] # candidate["entity_type"] \/ matched # <<>>
             THEN align_candidates(entity, Tail(candidates), matched, final_candidates)
             ELSE IF translate_to_language(entity["body"]) = candidate["body"]
             \* final_candidates.append(candidate); break
             THEN Append(final_candidates, candidate)
             ELSE align_candidates(entity, Tail(candidates), matched, final_candidates)

\* the loop of TranslationDucklingAnnotator.parse over en_entities
RECURSIVE align_entities(_, _, _)
align_entities(en_entities, candidates, final_candidates) ==
    IF en_entities = <<>> THEN final_candidates
    ELSE align_entities(Tail(en_entities), candidates,
                        align_candidates(Head(en_entities), candidates, <<>>,
                                         final_candidates))

\* the parse() calls of the model: the spaCy variant (English) detects
\* entities only, the duckling variants (non-English) candidates only, the
\* multilingual one both
PaInit ==
    /\ pa_pc = "start"
    /\ \/ \E m \in SeqsUpTo(EntityDicts, MaxDetected) :
            \E r \in SeqsUpTo(DucklingCandidates, MaxDetected - Len(m)) :
              \E v \in {"spacy", "no_translation", "multilingual"},
                 lg \in {"en", "es"}, t \in EntityTypesArgs :
                 /\ v = "spacy" => r = <<>> /\ lg = "en"
                 /\ v = "no_translation" => m = <<>> /\ lg = "es"
                 /\ pa_in = [variant |-> v, language |-> lg, entity_types |-> t,
                             model |-> m, rule |-> r, en_entities |-> <<>>]
       \* the translating variant: the entities of the English annotator, which
       \* has filtered them by entity_types, and the candidates over the
       \* original sentence
       \/ \E e \in SeqsUpTo(EnglishEntities, 1) :
            \E c \in SeqsUpTo(AlignmentCandidates, MaxDetected) :
              \E t \in {NoEntityTypes, [none |-> FALSE, list |-> <<"sys_time">>]} :
                 /\ \A k \in 1..Len(e) : t.none \/ e[k].dim \in Range(t.list)
                 /\ pa_in = [variant |-> "translation", language |-> "es",
                             entity_types |-> t, model |-> <<>>, rule |-> c,
                             en_entities |-> e]
    /\ pa_out = <<>>
    /\ RqIdle /\ UqIdle /\ FmIdle /\ SpIdle /\ DrIdle /\ EfIdle /\ SyIdle

PaFrame == UNCHANGED <<rqVars, uqVars, fmVars, spVars, drVars, efVars, syVars, pa_in>>

PaSpacyParse ==
    /\ pa_pc = "start" /\ pa_in.variant = "spacy"
    /\ pa_out' = spacy_parse(pa_in.model, pa_in.entity_types)
    /\ pa_pc' = "done"
    /\ PaFrame

PaNoTranslationDucklingParse ==
    /\ pa_pc = "start" /\ pa_in.variant = "no_translation"
    /\ pa_out' = no_translation_duckling_parse(pa_in.rule, pa_in.entity_types)
    /\ pa_pc' = "done"
    /\ PaFrame

PaTranslationDucklingParse ==
    /\ pa_pc = "start" /\ pa_in.variant = "translation"
    /\ pa_out' = translation_duckling_parse(
                      align_entities(pa_in.en_entities, pa_in.rule, <<>>),
                      pa_in.entity_types)
    /\ pa_pc' = "done"
    /\ PaFrame

PaMultiLingualParse ==
    /\ pa_pc = "start" /\ pa_in.variant = "multilingual"
    /\ pa_out' = multilingual_parse(pa_in.language, pa_in.model, pa_in.rule,
                                    pa_in.entity_types)
    /\ pa_pc' = "done"
    /\ PaFrame

PaNext ==
    \/ PaSpacyParse
    \/ PaNoTranslationDucklingParse
    \/ PaTranslationDucklingParse
    \/ PaMultiLingualParse

SpecParse == PaInit /\ [][PaNext]_vars

(***************************************************************************)
(* RuleEngine: Annotator._get_entities on the characters of the entity     *)
(* field                                                                   *)
(***************************************************************************)
\* largest number of characters of rule["entities"]
MaxField == 4

\* the characters of an entity field: white space, the characters the code
\* treats specially, and the letters of entity type names ("T" is upper-case "t")
FieldChars == {" ", "(", ")", "|", "*", ".", "+", "t", "T", "x"}

\* the wildcard fields of line 137, as character sequences
WildcardFields == {<<"*">>, <<".", "*">>, <<".", "+">>}

\* supported_entity_types of the annotator: the type named "t" or nothing
FieldSupported == {{}, {<<"t">>}}

\* str.lower()
str_lower(text) == [k \in 1..Len(text) |-> IF text[k] = "T" THEN "t" ELSE text[k]]

RECURSIVE str_lstrip(_)
str_lstrip(text) ==
    IF text # <<>> /\ Head(text) = " " THEN str_lstrip(Tail(text)) ELSE text

RECURSIVE str_rstrip(_)
str_rstrip(text) ==
    IF text # <<>> /\ text[Len(text)] = " "
    THEN str_rstrip(SubSeq(text, 1, Len(text) - 1))
    ELSE text

\* str.strip()
str_strip(text) == str_rstrip(str_lstrip(text))

\* re.sub("[()]", "", text)
re_sub_parentheses(text) == SelectSeq(text, LAMBDA ch : ch \notin {"(", ")"})

\* str.split("|"): token is the piece being read
RECURSIVE str_split_from(_, _)
str_split_from(text, token) ==
    IF text = <<>> THEN <<token>>
    ELSE IF Head(text) = "|"
         THEN <<token>> \o str_split_from(Tail(text), <<>>)
         ELSE str_split_from(Tail(text), Append(token, Head(text)))

str_split(text) == str_split_from(text, <<>>)

\* fault variant of field_valid_entity_check: the comparison is case-sensitive
field_valid_entity_check_case_sensitive(entity, supported_entity_types) ==
    str_strip(entity) \in supported_entity_types

\* Annotator.valid_entity_check on the characters of the token
field_valid_entity_check(entity, supported_entity_types) ==
    str_strip(str_lower(entity)) \in supported_entity_types

\* the loop of _get_entities over the pieces of the split: the valid entities
\* and the number of "is not a valid entity" warnings
RECURSIVE field_valid_entities(_, _)
field_valid_entities(entities, supported_entity_types) ==
    IF entities = <<>> THEN [entities |-> <<>>, warnings |-> 0]
    ELSE LET entity == str_strip(Head(entities))
             rest == field_valid_entities(Tail(entities), supported_entity_types)
         IN  IF field_valid_entity_check(entity, supported_entity_types)
             THEN [entities |-> <<entity>> \o rest.entities, warnings |-> rest.warnings]
             ELSE [entities |-> rest.entities, warnings |-> rest.warnings + 1]

\* Annotator._get_entities on rule["entities"] given as characters
field_get_entities(field, supported_entity_types) ==
    IF str_strip(field) \in WildcardFields
    THEN [entities |-> << <<"*">> >>, warnings |-> 0]
    ELSE field_valid_entities(str_split(re_sub_parentheses(field)),
                              supported_entity_types)

EfInit ==
    /\ ef_pc = "start"
    /\ ef_in \in [field : SeqsUpTo(FieldChars, MaxField), supported : FieldSupported]
    /\ ef_out = [entities |-> <<>>, warnings |-> 0]
    /\ RqIdle /\ UqIdle /\ FmIdle /\ SpIdle /\ DrIdle /\ PaIdle /\ SyIdle

EfGetEntities ==
    /\ ef_pc = "start"
    /\ ef_out' = field_get_entities(ef_in.field, ef_in.supported)
    /\ ef_pc' = "done"
    /\ UNCHANGED <<rqVars, uqVars, fmVars, spVars, drVars, paVars, syVars, ef_in>>

EfNext == EfGetEntities

SpecEntityField == EfInit /\ [][EfNext]_vars

(***************************************************************************)
(* ModelRecognizer: the type-specific resolution heuristics of             *)
(* SpacyAnnotator                                                          *)
(***************************************************************************)
\* largest number of characters of a raw entity's text
MaxBody == 3
\* largest number of candidates the rule-based resolver returns for a text
MaxCandidates == 2
\* largest number of characters of a sentence given to the money heuristic
MaxSentence == 3

\* a value dictionary: "type" is its "type" key ("absent" when it has none);
\* its "value" key holds a text or a number num/den, the number being a Python
\* float when "float" is TRUE and an int otherwise
text_value(text) ==
    [type |-> "absent", holds |-> "text", text |-> text,
     num |-> 0, den |-> 1, float |-> FALSE]

\* the value of a number candidate as the resolver's JSON answer decodes: a
\* number with a fractional part is a float, a whole number an int
number_value(num, den) ==
    [type |-> "value", holds |-> "number", text |-> <<>>,
     num |-> num, den |-> den, float |-> (den # 1)]

\* constants.ANNOTATOR_TO_SYS_ENTITY_MAPPINGS
annotator_to_sys_entity(dim) ==
    CASE dim = "money" -> "sys_amount-of-money"
      [] dim = "cardinal" -> "sys_number"
      [] dim = "ordinal" -> "sys_ordinal"
      [] dim = "percent" -> "sys_percent"
      [] dim = "person" -> "sys_person"
      [] dim = "distance" -> "sys_distance"
      [] dim = "quantity" -> "sys_weight"
      [] OTHER -> "sys_" \o dim

\* candidate["entity_type"]: the system entity type the resolver's client
\* gives to a candidate of a dimension
candidate_entity_type(candidate) ==
    CASE candidate.dim = "time" ->
            IF candidate.value.type = "interval" THEN "sys_interval" ELSE "sys_time"
      [] candidate.dim = "quantity" -> "sys_weight"
      [] OTHER -> "sys_" \o candidate.dim

\* Python's "a in b" on strings
is_substring(a, b) ==
    \E i \in 0..(Len(b) - Len(a)) : SubSeq(b, i + 1, i + Len(a)) = a

\* SpacyAnnotator._get_time_entity_type; "None" when the function returns None
get_time_entity_type(candidate) ==
    IF candidate["dim"] = "duration" THEN "sys_duration"
    ELSE IF candidate["dim"] = "time"
         THEN IF candidate["value"]["type"] = "interval" THEN "sys_interval"
              ELSE "sys_time"
         ELSE "None"

\* fault variant of resolve_time_exact_match: the allowed types are tried in
\* their priority order, the candidates in their order for each type
RECURSIVE resolve_time_exact_match_by_priority(_, _, _)
resolve_time_exact_match_by_priority(entity, candidates, time_entities) ==
    IF time_entities = <<>> THEN <<>>
    ELSE LET typed == SelectSeq(candidates,
                 LAMBDA c : /\ get_time_entity_type(c) = Head(time_entities)
                            /\ c["body"] = entity["body"])
         IN  IF typed # <<>>
             THEN <<[entity EXCEPT !["dim"] = Head(time_entities),
                                   !["value"] = typed[1]["value"]]>>
             ELSE resolve_time_exact_match_by_priority(entity, candidates,
                                                       Tail(time_entities))

\* SpacyAnnotator._resolve_time_exact_match: <<>> for None, else <<entity>>
RECURSIVE resolve_time_exact_match(_, _, _)
resolve_time_exact_match(entity, candidates, time_entities) ==
    IF candidates = <<>> THEN <<>>
    ELSE LET candidate == Head(candidates)
             candidate_entity == get_time_entity_type(candidate)
         IN  IF /\ candidate_entity \in Range(time_entities)
                /\ candidate["body"] = entity["body"]
             THEN <<[entity EXCEPT !["dim"] = candidate_entity,
                                   !["value"] = candidate["value"]]>>
             ELSE resolve_time_exact_match(entity, Tail(candidates), time_entities)

\* the inner loop of _resolve_largest_substring over the candidates, for one
\* entity_type; largest is <<>> while largest_candidate is None, else
\* <<[candidate, entity_type]>>
RECURSIVE largest_among_candidates(_, _, _, _, _)
largest_among_candidates(entity, candidates, entity_type, is_time_related, largest) ==
    IF candidates = <<>> THEN largest
    ELSE LET candidate == Head(candidates)
             candidate_entity == IF is_time_related
                                 THEN get_time_entity_type(candidate)
                                 ELSE candidate_entity_type(candidate)
             larger == /\ candidate_entity = entity_type
                       /\ is_substring(candidate["body"], entity["body"])
                       /\ \/ largest = <<>>
                          \/ Len(candidate["body"]) > Len(largest[1].candidate["body"])
         IN  largest_among_candidates(
                 entity, Tail(candidates), entity_type, is_time_related,
                 IF larger
                 THEN <<[candidate |-> candidate, entity_type |-> entity_type]>>
                 ELSE largest)

\* the outer loop of _resolve_largest_substring over entity_types
RECURSIVE largest_among_types(_, _, _, _, _)
largest_among_types(entity, candidates, entity_types, is_time_related, largest) ==
    IF entity_types = <<>> THEN largest
    ELSE largest_among_types(
             entity, candidates, Tail(entity_types), is_time_related,
             largest_among_candidates(entity, candidates, Head(entity_types),
                                      is_time_related, largest))

\* fault variant of resolve_largest_substring: the span is not offset by the
\* raw entity's start
resolve_largest_substring_local_span(entity, candidates, entity_types, is_time_related) ==
    LET largest == largest_among_types(entity, candidates, entity_types,
                                       is_time_related, <<>>)
    IN  IF largest = <<>> THEN <<>>
        ELSE <<[body |-> largest[1].candidate["body"],
                start |-> largest[1].candidate["start"],
                end |-> largest[1].candidate["end"],
                value |-> largest[1].candidate["value"],
                dim |-> largest[1].entity_type]>>

\* SpacyAnnotator._resolve_largest_substring: <<>> for None, else <<entity>>
resolve_largest_substring(entity, candidates, entity_types, is_time_related) ==
    LET largest == largest_among_types(entity, candidates, entity_types,
                                       is_time_related, <<>>)
        offset == entity["start"]
    IN  IF largest = <<>> THEN <<>>
        ELSE <<[body |-> largest[1].candidate["body"],
                start |-> offset + largest[1].candidate["start"],
                end |-> offset + largest[1].candidate["end"],
                value |-> largest[1].candidate["value"],
                dim |-> largest[1].entity_type]>>

\* the allowed time-related types of _resolve_time_date, in priority order
allowed_time_entities(entity_types) ==
    IF entity_types_truthy(entity_types)
    THEN SelectSeq(<<"sys_duration", "sys_interval", "sys_time">>,
                   LAMBDA e : e \in Range(entity_types.list))
    ELSE <<"sys_duration", "sys_interval", "sys_time">>

\* SpacyAnnotator._resolve_time_date; candidates is what the resolver gives for
\* entity["body"]
resolve_time_date(entity, candidates, entity_types) ==
    IF Len(candidates) = 0 THEN <<>>
    ELSE LET time_entities == allowed_time_entities(entity_types)
             exact == resolve_time_exact_match(entity, candidates, time_entities)
         IN  IF exact # <<>> THEN exact
             ELSE resolve_largest_substring(entity, candidates, time_entities, TRUE)

\* value / 100
divide_by_100(value) == [value EXCEPT !.den = @ * 100]

\* max(possible_values) on a non-empty list of ints
RECURSIVE max_value(_)
max_value(possible_values) ==
    IF Len(possible_values) = 1 THEN possible_values[1]
    ELSE LET rest == max_value(Tail(possible_values))
         IN  IF Head(possible_values).num >= rest.num THEN Head(possible_values) ELSE rest

\* the loop of _resolve_percent over the candidates: "returned" when a float
\* was met (value is that float), else the ints collected in possible_values
RECURSIVE percent_loop(_, _)
percent_loop(candidates, possible_values) ==
    IF candidates = <<>>
    THEN [returned |-> FALSE, value |-> number_value(0, 1),
          possible_values |-> possible_values]
    ELSE LET candidate == Head(candidates)
         IN  IF candidate_entity_type(candidate) = "sys_number"
             THEN IF candidate["value"].float
                  THEN [returned |-> TRUE, value |-> candidate["value"],
                        possible_values |-> possible_values]
                  ELSE percent_loop(Tail(candidates),
                                    Append(possible_values, candidate["value"]))
             ELSE percent_loop(Tail(candidates), possible_values)

\* entity["value"]["value"] = number: the other keys of the dictionary stay
set_value_number(entity, number) ==
    [entity EXCEPT !["value"] =
        [type |-> entity["value"].type, holds |-> "number", text |-> <<>>,
         num |-> number.num, den |-> number.den, float |-> TRUE]]

\* fault variant of resolve_percent: the first int is taken in place of the
\* largest
resolve_percent_first_int(entity, candidates) ==
    LET typed == [entity EXCEPT !["dim"] = annotator_to_sys_entity(entity["dim"])]
        loop == percent_loop(candidates, <<>>)
    IN  IF Len(candidates) = 0 THEN [raised |-> FALSE, out |-> <<>>]
        ELSE IF loop.returned
        THEN [raised |-> FALSE, out |-> <<set_value_number(typed, divide_by_100(loop.value))>>]
        ELSE IF loop.possible_values = <<>> THEN [raised |-> TRUE, out |-> <<>>]
        ELSE [raised |-> FALSE,
              out |-> <<set_value_number(typed, divide_by_100(loop.possible_values[1]))>>]

\* SpacyAnnotator._resolve_percent: "raised" when the call ends with an
\* exception, else out is <<>> for None and <<entity>> otherwise
resolve_percent(entity, candidates) ==
    LET typed == [entity EXCEPT !["dim"] = annotator_to_sys_entity(entity["dim"])]
        loop == percent_loop(candidates, <<>>)
    IN  IF Len(candidates) = 0 THEN [raised |-> FALSE, out |-> <<>>]
        ELSE IF loop.returned
        THEN [raised |-> FALSE, out |-> <<set_value_number(typed, divide_by_100(loop.value))>>]
        \* max() of an empty list raises ValueError
        ELSE IF loop.possible_values = <<>> THEN [raised |-> TRUE, out |-> <<>>]
        ELSE [raised |-> FALSE,
              out |-> <<set_value_number(typed,
                                         divide_by_100(max_value(loop.possible_values)))>>]

\* body[:-2]
without_last_two(body) == SubSeq(body, 1, Len(body) - 2)

\* fault variant of resolve_person: the suffix is stripped in every language
resolve_person_any_language(entity, language) ==
    LET typed == [entity EXCEPT !["dim"] = annotator_to_sys_entity(entity["dim"])]
    IN  IF /\ Len(entity["body"]) >= 2
           /\ SubSeq(entity["body"], Len(entity["body"]) - 1, Len(entity["body"])) = <<"'", "s">>
        THEN [typed EXCEPT !["value"] = text_value(without_last_two(entity["body"])),
                           !["body"] = without_last_two(entity["body"]),
                           !["end"] = @ - 2]
        ELSE typed

\* SpacyAnnotator._resolve_person
resolve_person(entity, language) ==
    LET typed == [entity EXCEPT !["dim"] = annotator_to_sys_entity(entity["dim"])]
    IN  IF /\ language = "en"
           /\ Len(entity["body"]) >= 2
           /\ SubSeq(entity["body"], Len(entity["body"]) - 1, Len(entity["body"])) = <<"'", "s">>
        THEN [typed EXCEPT !["value"] = text_value(without_last_two(entity["body"])),
                           !["body"] = without_last_two(entity["body"]),
                           !["end"] = @ - 2]
        ELSE typed

\* the exact-match loops of _resolve_quantity: for one entity_type, the first
\* candidate of that dimension with the entity's text
RECURSIVE quantity_exact_candidates(_, _, _)
quantity_exact_candidates(entity, candidates, entity_type) ==
    IF candidates = <<>> THEN <<>>
    ELSE LET candidate == Head(candidates)
         IN  IF candidate["dim"] = entity_type /\ candidate["body"] = entity["body"]
             THEN <<[entity EXCEPT !["value"] = candidate["value"],
                                   !["dim"] = annotator_to_sys_entity(entity_type)]>>
             ELSE quantity_exact_candidates(entity, Tail(candidates), entity_type)

RECURSIVE quantity_exact_match(_, _, _)
quantity_exact_match(entity, candidates, entity_types) ==
    IF entity_types = <<>> THEN <<>>
    ELSE LET exact == quantity_exact_candidates(entity, candidates, Head(entity_types))
         IN  IF exact # <<>> THEN exact
             ELSE quantity_exact_match(entity, candidates, Tail(entity_types))

\* fault variant of resolve_quantity: an entity without candidates is dropped
resolve_quantity_drops_unresolved(entity, candidates) ==
    LET entity_types == <<"distance", "quantity">>
        exact == quantity_exact_match(entity, candidates, entity_types)
    IN  IF Len(candidates) = 0 THEN <<>>
        ELSE IF exact # <<>> THEN exact
        ELSE resolve_largest_substring(entity, candidates, entity_types, FALSE)

\* SpacyAnnotator._resolve_quantity: <<entity>>, or <<>> if it returned None
resolve_quantity(entity, candidates) ==
    LET entity_types == <<"distance", "quantity">>
        exact == quantity_exact_match(entity, candidates, entity_types)
        substring == resolve_largest_substring(entity, candidates, entity_types, FALSE)
    IN  IF Len(candidates) = 0
        THEN <<[entity EXCEPT !["dim"] = "sys_other-quantity"]>>
        ELSE IF exact # <<>> THEN exact
        ELSE IF substring # <<>> THEN substring
        ELSE <<[entity EXCEPT !["dim"] = "sys_other-quantity"]>>

\* the loop of _resolve_exact_match over the candidates
RECURSIVE exact_match_loop(_, _)
exact_match_loop(entity, candidates) ==
    IF candidates = <<>> THEN <<>>
    ELSE LET candidate == Head(candidates)
         IN  IF /\ candidate_entity_type(candidate) = entity["dim"]
                /\ entity["body"] = candidate["body"]
             THEN <<[entity EXCEPT !["value"] = candidate["value"]]>>
             ELSE exact_match_loop(entity, Tail(candidates))

\* SpacyAnnotator._resolve_exact_match: <<>> for None, else <<entity>>
resolve_exact_match(entity, candidates) ==
    LET typed == [entity EXCEPT !["dim"] = annotator_to_sys_entity(entity["dim"])]
    IN  IF Len(candidates) = 0 THEN <<>>
        ELSE exact_match_loop(typed, candidates)

\* SpacyAnnotator._resolve_cardinal: the entity dictionary the substring step
\* gets is the one _resolve_exact_match has retyped
resolve_cardinal(entity, candidates) ==
    LET exact == resolve_exact_match(entity, candidates)
        typed == [entity EXCEPT !["dim"] = annotator_to_sys_entity(entity["dim"])]
    IN  IF exact # <<>> THEN exact
        ELSE resolve_largest_substring(typed, candidates, <<"sys_number">>, FALSE)

\* SpacyAnnotator._resolve_ordinal
resolve_ordinal(entity, candidates) == resolve_exact_match(entity, candidates)

\* constants.CURRENCY_SYMBOLS
CURRENCY_SYMBOLS == <<"$", "€">>

\* sentence[a:b] of Python, for 0 <= a <= b
str_slice(sentence, a, b) == SubSeq(sentence, a + 1, b)

\* fault variant of money_symbol_loop: a symbol right before the span extends
\* it whatever precedes the symbol
RECURSIVE money_symbol_loop_any_position(_, _, _)
money_symbol_loop_any_position(entity, sentence, symbols) ==
    IF symbols = <<>> THEN entity
    ELSE LET symbol == Head(symbols)
             start == entity["start"]
         IN  money_symbol_loop_any_position(
                 IF /\ symbol \in Range(sentence)
                    /\ start >= 1 /\ sentence[start] = symbol
                 THEN [entity EXCEPT
                          !["start"] = start - 1,
                          !["body"] = str_slice(sentence, start - 1, entity["end"])]
                 ELSE entity,
                 sentence, Tail(symbols))

\* the loop of _resolve_money over CURRENCY_SYMBOLS
RECURSIVE money_symbol_loop(_, _, _)
money_symbol_loop(entity, sentence, symbols) ==
    IF symbols = <<>> THEN entity
    ELSE LET symbol == Head(symbols)
             start == entity["start"]
         IN  money_symbol_loop(
                 IF /\ symbol \in Range(sentence)
                    /\ \/ start = 1 /\ sentence[1] = symbol
                       \/ /\ start >= 2
                          /\ str_slice(sentence, start - 2, start) = <<" ", symbol>>
                 THEN [entity EXCEPT
                          !["start"] = start - 1,
                          !["body"] = str_slice(sentence, start - 1, entity["end"])]
                 ELSE entity,
                 sentence, Tail(symbols))

\* SpacyAnnotator._resolve_money; candidates is what the resolver gives for the
\* text of the extended entity
resolve_money(entity, sentence, candidates) ==
    LET extended == money_symbol_loop(entity, sentence, CURRENCY_SYMBOLS)
    IN  resolve_exact_match(extended, candidates)

\* the labels of the NER models' inventories that the model covers
ModelLabels ==
    {"MISC", "PER", "persName", "PERSON", "ORG", "WORK_OF_ART",
     "TIME", "DATE", "QUANTITY", "PERCENT", "MONEY", "CARDINAL", "ORDINAL"}

\* ent.label_.lower()
label_lower(label) ==
    CASE label = "MISC" -> "misc"
      [] label = "PER" -> "per"
      [] label = "persName" -> "persname"
      [] label = "PERSON" -> "person"
      [] label = "ORG" -> "org"
      [] label = "WORK_OF_ART" -> "work_of_art"
      [] label = "TIME" -> "time"
      [] label = "DATE" -> "date"
      [] label = "QUANTITY" -> "quantity"
      [] label = "PERCENT" -> "percent"
      [] label = "MONEY" -> "money"
      [] label = "CARDINAL" -> "cardinal"
      [] label = "ORDINAL" -> "ordinal"

\* entity["dim"].replace("_", "-") on the lower-cased labels
replace_underscore(dim) ==
    IF dim = "work_of_art" THEN "work-of-art" ELSE dim

\* the keys of entity_resolution_func_map
entity_resolution_func_map_keys ==
    {"time", "date", "datetime", "cardinal", "money", "ordinal", "quantity",
     "percent", "person"}

\* SpacyAnnotator.parse: "if entity['dim'] in ['per', 'persName']:
\* entity['dim'] = 'person'"
parse_normalized_dim(dim) ==
    IF dim \in {"per", "persName"} THEN "person" ELSE dim

\* the body of the loop of SpacyAnnotator.parse over spacy_entities, for the
\* one raw entity of the call: "raised" when a heuristic raises, else out is
\* <<>> when nothing is appended and <<entity>> otherwise
parse_resolve_entity(call) ==
    LET raw == call.entity
        entity == [raw EXCEPT !["dim"] = parse_normalized_dim(raw["dim"])]
        dim == entity["dim"]
        returned(out) == [raised |-> FALSE, out |-> out]
    IN  IF raw["dim"] \notin {"per", "persName"} /\ raw["dim"] = "misc"
        THEN returned(<<>>)
        ELSE IF dim \in entity_resolution_func_map_keys
        THEN CASE dim \in {"time", "date", "datetime"} ->
                     returned(resolve_time_date(entity, call.candidates,
                                                call.entity_types))
               [] dim = "cardinal" -> returned(resolve_cardinal(entity, call.candidates))
               [] dim = "money" ->
                     returned(resolve_money(entity, call.sentence, call.candidates))
               [] dim = "ordinal" -> returned(resolve_ordinal(entity, call.candidates))
               [] dim = "quantity" -> returned(resolve_quantity(entity, call.candidates))
               [] dim = "percent" -> resolve_percent(entity, call.candidates)
               [] dim = "person" -> returned(<<resolve_person(entity, call.language)>>)
        ELSE returned(<<[entity EXCEPT !["dim"] = "sys_" \o replace_underscore(dim)]>>)

\* SpacyAnnotator.parse on a sentence with one raw entity
spacy_parse_sentence(call) ==
    LET resolved == parse_resolve_entity(call)
    IN  IF resolved.raised THEN resolved
        ELSE [raised |-> FALSE, out |-> spacy_parse(resolved.out, call.entity_types)]

\* the keys of constants.ANNOTATOR_TO_SYS_ENTITY_MAPPINGS
ANNOTATOR_TO_SYS_ENTITY_MAPPINGS_keys ==
    {"money", "cardinal", "ordinal", "person", "percent", "distance", "quantity"}

\* constants.SPACY_ENTITIES_THAT_REQUIRE_DUCKLING
SPACY_ENTITIES_THAT_REQUIRE_DUCKLING ==
    {"sys_time", "sys_duration", "sys_interval", "sys_number",
     "sys_amount-of-money", "sys_distance", "sys_weight", "sys_ordinal",
     "sys_percent"}

\* constants.DUCKLING_TO_SYS_ENTITY_MAPPINGS: the languages of the model are
\* languages for which the rule-based resolver knows every one of these types
DUCKLING_TO_SYS_ENTITY_MAPPINGS(language) ==
    IF language \in {"en", "es"} THEN SPACY_ENTITIES_THAT_REQUIRE_DUCKLING ELSE {}

\* SpacyAnnotator._remove_unresolvable_entities
remove_unresolvable_entities(entities, language) ==
    {entity \in entities :
        entity \in SPACY_ENTITIES_THAT_REQUIRE_DUCKLING
            => entity \in DUCKLING_TO_SYS_ENTITY_MAPPINGS(language)}

\* the loop of SpacyAnnotator.supported_entity_types over the lower-cased
\* labels of the model
supported_entities_of_labels(spacy_supported_entities) ==
    UNION {IF entity = "misc" THEN {}
           ELSE IF entity \in {"time", "date", "datetime"}
                THEN {"sys_time", "sys_duration", "sys_interval"}
           ELSE IF entity \in ANNOTATOR_TO_SYS_ENTITY_MAPPINGS_keys
                THEN {annotator_to_sys_entity(entity)}
           ELSE {"sys_" \o entity} : entity \in spacy_supported_entities}

\* SpacyAnnotator.supported_entity_types; labels is nlp.get_pipe("ner").labels
spacy_supported_entity_types(labels, language) ==
    LET supported_entities ==
            supported_entities_of_labels({label_lower(e) : e \in labels})
        implied == IF "sys_weight" \in supported_entities
                   THEN supported_entities \cup {"sys_distance", "sys_other-quantity"}
                   ELSE supported_entities
    IN  remove_unresolvable_entities(implied, language)

\* the characters of the raw texts given to the temporal and quantity
\* heuristics: the text of n characters is the first n of them
RawAlphabet == <<"n", "1", "5", "m", "s">>
raw_text(n) == SubSeq(RawAlphabet, 1, n)

\* a raw entity of SpacyAnnotator.parse: ent.text, start_char, end_char (the
\* entity starts at offset MaxPos of its sentence), label, {"value": ent.text}
raw_entity(body, dim) ==
    [body |-> body, start |-> MaxPos, end |-> MaxPos + Len(body), dim |-> dim,
     value |-> text_value(body)]

\* a candidate of the rule-based resolver for the characters start..end-1 of
\* the queried text, or for a text that does not occur in it
resolver_candidate(body, start, end, dim, type) ==
    [body |-> body, start |-> start, end |-> end, dim |-> dim,
     value |-> [type |-> type, holds |-> "text", text |-> <<dim>> \o body,
                num |-> 0, den |-> 1, float |-> FALSE]]

\* the candidates of the given kinds over every piece of the queried text
span_candidates(text, kinds) ==
    {resolver_candidate(SubSeq(text, sp[1] + 1, sp[2]), sp[1], sp[2], k.dim, k.type) :
        sp \in {x \in (0..(Len(text) - 1)) \X (1..Len(text)) : x[1] < x[2]},
        k \in kinds}

\* what the resolver may return for the text of a time-related raw entity
temporal_candidates(text) ==
    span_candidates(text, {[dim |-> "duration", type |-> "value"],
                           [dim |-> "time", type |-> "value"],
                           [dim |-> "time", type |-> "interval"]})
    \cup {resolver_candidate(text, 0, Len(text), "number", "value"),
          resolver_candidate(<<"z">>, 0, 1, "duration", "value")}

\* what the resolver may return for the text of a quantity raw entity
quantity_candidates(text) ==
    span_candidates(text, {[dim |-> "distance", type |-> "value"],
                           [dim |-> "quantity", type |-> "value"]})
    \cup {resolver_candidate(text, 0, Len(text), "number", "value")}

\* what the resolver may return for the text "50%": whole and fractional
\* numbers, and a candidate that is no number
percent_candidates ==
    {[body |-> <<"5", "0">>, start |-> 0, end |-> 2, dim |-> "number",
      value |-> number_value(n[1], n[2])] :
        n \in {<<7, 1>>, <<50, 1>>, <<101, 2>>, <<1, 2>>}}
    \cup {resolver_candidate(<<"5", "0", "%">>, 0, 3, "time", "value")}

\* the characters of the sentences given to the money heuristic
SentenceChars == {"$", "€", " ", "5"}

\* the raw money entities of a sentence: every non-empty piece of it
money_entities(sentence) ==
    {[body |-> str_slice(sentence, sp[1], sp[2]), start |-> sp[1], end |-> sp[2],
      dim |-> "money", value |-> text_value(str_slice(sentence, sp[1], sp[2]))] :
        sp \in {x \in (0..(Len(sentence) - 1)) \X (1..Len(sentence)) : x[1] < x[2]}}

\* what the resolver may return for the text of a money entity, extended or
\* not: an amount of money for the raw text, one for the text with the
\* character before it, and a number
money_candidates(sentence, entity) ==
    {resolver_candidate(str_slice(sentence, from, entity.end), 0, entity.end - from,
                        "amount-of-money", "value") :
        from \in {entity.start} \cup ({entity.start - 1} \cap Nat)}
    \cup {resolver_candidate(entity.body, 0, Len(entity.body), "number", "value")}

\* what the resolver may return for the text of a cardinal or ordinal raw
\* entity
number_candidates(text) ==
    span_candidates(text, {[dim |-> "number", type |-> "value"],
                           [dim |-> "ordinal", type |-> "value"]})

\* the calls of parse() on a sentence whose one raw entity carries the label:
\* the raw entity, what the resolver returns for its text (at most one
\* candidate), the arguments of the call, and the labels of the model's
\* inventory (here the label alone)
ParseCallsOfLabel(label) ==
    LET dim == label_lower(label)
        call(language, entity_types, entity, candidates, sentence) ==
            [heuristic |-> "parse", label |-> label, labels |-> {label},
             language |-> language,
             entity_types |-> entity_types, entity |-> entity,
             candidates |-> candidates, sentence |-> sentence]
        texts == {raw_text(n) : n \in 1..MaxBody}
    IN  CASE dim \in {"time", "date"} ->
               UNION {{call("en", t, raw_entity(text, dim), cs, text) :
                          t \in {NoEntityTypes, [none |-> FALSE, list |-> <<"sys_time">>]},
                          cs \in SeqsUpTo(temporal_candidates(text), 1)} :
                      text \in texts}
          [] dim = "quantity" ->
               UNION {{call("en", NoEntityTypes, raw_entity(text, dim), cs, text) :
                          cs \in SeqsUpTo(quantity_candidates(text), 1)} :
                      text \in texts}
          [] dim \in {"cardinal", "ordinal"} ->
               UNION {{call("en", NoEntityTypes, raw_entity(text, dim), cs, text) :
                          cs \in SeqsUpTo(number_candidates(text), 1)} :
                      text \in texts}
          [] dim = "percent" ->
               {call("en", NoEntityTypes, raw_entity(<<"5", "0", "%">>, dim), cs,
                     <<"5", "0", "%">>) :
                   cs \in SeqsUpTo(percent_candidates, 1)}
          [] dim = "money" ->
               UNION {UNION {{call("en", NoEntityTypes, entity, cs, sentence) :
                                 cs \in SeqsUpTo(money_candidates(sentence, entity), 1)} :
                             entity \in money_entities(sentence)} :
                      sentence \in SeqsUpTo(SentenceChars, MaxSentence)}
          [] dim \in {"per", "persname", "person"} ->
               {call(lg, NoEntityTypes, raw_entity(body, dim), <<>>, body) :
                   lg \in {"en", "es"},
                   body \in SeqsUpTo({"a", "'", "s"}, MaxBody) \ {<<>>}}
          [] OTHER ->
               {call(lg, t, raw_entity(text, dim), <<>>, text) :
                   lg \in {"en", "es"},
                   t \in {NoEntityTypes, [none |-> FALSE, list |-> <<"sys_time">>]},
                   text \in texts}

\* the entity_types arguments given to the temporal heuristic
TemporalEntityTypesArgs ==
    {NoEntityTypes,
     [none |-> FALSE, list |-> <<"sys_time">>],
     [none |-> FALSE, list |-> <<"sys_number">>]}

SyInit ==
    /\ sy_pc = "start"
    /\ sy_out = <<>>
    /\ \/ \E cs \in SeqsUpTo(percent_candidates, MaxCandidates) :
            sy_in = [heuristic |-> "percent", language |-> "en",
                     entity_types |-> NoEntityTypes,
                     entity |-> raw_entity(<<"5", "0", "%">>, "percent"),
                     candidates |-> cs]
       \/ \E body \in SeqsUpTo({"a", "'", "s"}, MaxBody) \ {<<>>}, lg \in {"en", "es"} :
            sy_in = [heuristic |-> "person", language |-> lg,
                     entity_types |-> NoEntityTypes,
                     entity |-> raw_entity(body, "person"),
                     candidates |-> <<>>]
       \/ \E n \in 1..MaxBody, t \in TemporalEntityTypesArgs :
            \E cs \in SeqsUpTo(temporal_candidates(raw_text(n)), MaxCandidates) :
               sy_in = [heuristic |-> "time", language |-> "en",
                        entity_types |-> t,
                        entity |-> raw_entity(raw_text(n), "time"),
                        candidates |-> cs]
       \/ \E n \in 1..MaxBody :
            \E cs \in SeqsUpTo(quantity_candidates(raw_text(n)), MaxCandidates) :
               sy_in = [heuristic |-> "quantity", language |-> "en",
                        entity_types |-> NoEntityTypes,
                        entity |-> raw_entity(raw_text(n), "quantity"),
                        candidates |-> cs]
       \/ \E sentence \in SeqsUpTo(SentenceChars, MaxSentence) :
            \E entity \in money_entities(sentence) :
               \E cs \in SeqsUpTo(money_candidates(sentence, entity), 1) :
                  sy_in = [heuristic |-> "money", language |-> "en",
                           entity_types |-> NoEntityTypes,
                           entity |-> entity,
                           candidates |-> cs,
                           sentence |-> sentence]
       \/ \E label \in ModelLabels, inventory \in {{}, ModelLabels} :
            \E call \in ParseCallsOfLabel(label) :
               sy_in = [call EXCEPT !.labels = @ \cup inventory]
    /\ RqIdle /\ UqIdle /\ FmIdle /\ SpIdle /\ DrIdle /\ PaIdle /\ EfIdle

SyFrame == UNCHANGED <<rqVars, uqVars, fmVars, spVars, drVars, paVars, efVars, sy_in>>

SyResolvePercent ==
    /\ sy_pc = "start" /\ sy_in.heuristic = "percent"
    /\ LET result == resolve_percent(sy_in.entity, sy_in.candidates)
       IN  /\ sy_out' = result.out
           /\ sy_pc' = IF result.raised THEN "raised" ELSE "done"
    /\ SyFrame

SyResolvePerson ==
    /\ sy_pc = "start" /\ sy_in.heuristic = "person"
    /\ sy_out' = <<resolve_person(sy_in.entity, sy_in.language)>>
    /\ sy_pc' = "done"
    /\ SyFrame

SyResolveTimeDate ==
    /\ sy_pc = "start" /\ sy_in.heuristic = "time"
    /\ sy_out' = resolve_time_date(sy_in.entity, sy_in.candidates, sy_in.entity_types)
    /\ sy_pc' = "done"
    /\ SyFrame

SyResolveQuantity ==
    /\ sy_pc = "start" /\ sy_in.heuristic = "quantity"
    /\ sy_out' = resolve_quantity(sy_in.entity, sy_in.candidates)
    /\ sy_pc' = "done"
    /\ SyFrame

SyResolveMoney ==
    /\ sy_pc = "start" /\ sy_in.heuristic = "money"
    /\ sy_out' = resolve_money(sy_in.entity, sy_in.sentence, sy_in.candidates)
    /\ sy_pc' = "done"
    /\ SyFrame

SyParse ==
    /\ sy_pc = "start" /\ sy_in.heuristic = "parse"
    /\ LET result == spacy_parse_sentence(sy_in)
       IN  /\ sy_out' = result.out
           /\ sy_pc' = IF result.raised THEN "raised" ELSE "done"
    /\ SyFrame

SyNext ==
    \/ SyResolvePercent
    \/ SyParse
    \/ SyResolveMoney
    \/ SyResolvePerson
    \/ SyResolveTimeDate
    \/ SyResolveQuantity

SpecHeuristics == SyInit /\ [][SyNext]_vars

(***************************************************************************)
(* Claims about the ConflictResolver                                       *)
(***************************************************************************)
PairwiseNonOverlapping(es) ==
    \A i, j \in 1..Len(es) : i # j => no_overlap(es[i], es[j])

MutuallyDisjoint(as, bs) ==
    \A i \in 1..Len(as) : \A j \in 1..Len(bs) : no_overlap(as[i], bs[j])

\* the recognizer's entities of the call, as _resolve_conflicts receives them
RqAnnotated == get_annotated_entities(rq_items, rq_types)
RqBase == IF rq_overwrite THEN RqAnnotated ELSE rq_before
RqOther == IF rq_overwrite THEN rq_before ELSE RqAnnotated

\* C1: the result of resolve is base followed by exactly the entities of
\* other that overlap no entity of base, both parts in input order (base is
\* the candidate list when overwrite is true, the current list otherwise);
\* with an empty candidate list and overwrite the result is the current list,
\* and with mutually disjoint lists it is all of base followed by all of other.
C1_ResolveBaseThenSurvivors ==
    rq_pc = "done" =>
        LET Survives(o) == \A i \in 1..Len(RqBase) : ~has_overlap(o, RqBase[i])
        IN  /\ rq_entities = RqBase \o SelectSeq(RqOther, Survives)
            /\ (RqAnnotated = <<>> /\ rq_overwrite => rq_entities = rq_before)
            /\ (MutuallyDisjoint(rq_before, RqAnnotated)
                    => rq_entities = RqBase \o RqOther)

\* C1 witness: a finished call with overwrite on, one candidate entity and two
\* current entities, of which the first is dropped and the second survives
C1_Witness ==
    /\ rq_pc = "done"
    /\ rq_overwrite
    /\ Len(RqBase) = 1
    /\ Len(RqOther) = 2
    /\ rq_entities = <<RqBase[1], RqOther[2]>>
    /\ has_overlap(RqOther[1], RqBase[1])

\* C2: when the example's entities are pairwise non-overlapping and the
\* recognizer's entities are pairwise non-overlapping, the entity list left
\* by _annotate_query is pairwise non-overlapping, for both overwrite values.
C2_AnnotateKeepsNonOverlap ==
    (/\ rq_pc = "done"
     /\ PairwiseNonOverlapping(rq_before)
     /\ PairwiseNonOverlapping(RqAnnotated))
        => PairwiseNonOverlapping(rq_entities)

\* C2 witness: overwrite off, one existing entity and two non-overlapping
\* recognizer entities, of which one is rejected for overlapping the existing
\* entity and the other is added
C2_Witness ==
    /\ rq_pc = "done"
    /\ ~rq_overwrite
    /\ Len(rq_before) = 1
    /\ Len(RqAnnotated) = 2
    /\ PairwiseNonOverlapping(RqAnnotated)
    /\ Len(rq_entities) = 2

(***************************************************************************)
(* Claims about the RuleEngine                                             *)
(***************************************************************************)
\* the indexes of the rules of fm_rules whose pattern matches path
FmMatching(path) == {i \in 1..Len(fm_rules) : path \in fm_rules[i].matches}

FmLast(S) == CHOOSE i \in S : \A k \in S : k <= i

\* C3: every path of the file-to-entities map starts as the empty list; after
\* the map is built the entry of a path is exactly the resolved entity list of
\* the last rule, in declaration order, that matches the path, also when that
\* list is empty, and a path that no rule matches keeps the empty list.
C3_LastMatchingRuleWins ==
    /\ fm_pc = "start" => \A path \in PathSet : fm_map[path] = <<>>
    /\ fm_pc = "done" =>
         \A path \in PathSet :
            IF FmMatching(path) = {}
            THEN fm_map[path] = <<>>
            ELSE fm_map[path] =
                    get_entities(fm_rules[FmLast(FmMatching(path))], fm_supported)

\* C3 witness: a path matched by an earlier rule that resolves to entities and
\* by a later rule that resolves to no entity, which resets the path
C3_Witness ==
    /\ fm_pc = "done"
    /\ \E path \in PathSet : \E i, k \in FmMatching(path) :
          /\ i < k
          /\ k = FmLast(FmMatching(path))
          /\ get_entities(fm_rules[i], fm_supported) # <<>>
          /\ get_entities(fm_rules[k], fm_supported) = <<>>
          /\ fm_map[path] = <<>>

(***************************************************************************)
(* Claims about unannotation                                               *)
(***************************************************************************)
\* C4: _unannotate_query keeps, in their original order, exactly: under the
\* wildcard removal set, the entities whose type the recognizer does not
\* support (as valid_entity_check decides it: the lower-cased type is not in
\* supported_entity_types) when unannotate_supported_entities_only is true and
\* no entity when it is false; under an explicit removal list, the entities
\* whose type is not in the list, whatever the flag.
C4_UnannotateKeeps ==
    uq_pc = "done" =>
        LET Unsupported(e) == \A t \in uq_supported : lower(e.type) # t
            NotListed(e) == \A k \in 1..Len(uq_remove) : uq_remove[k] # e.type
        IN  IF uq_remove = <<"*">>
            THEN IF uq_only
                 THEN uq_entities = SelectSeq(uq_before, Unsupported)
                 ELSE uq_entities = <<>>
            ELSE uq_entities = SelectSeq(uq_before, NotListed)

\* C4 witness: entities [sys_time, sys_number], wildcard, flag true, a
\* recognizer that supports only sys_time: [sys_number] is left
C4_Witness ==
    /\ uq_pc = "done"
    /\ uq_remove = <<"*">>
    /\ uq_only
    /\ uq_supported = {"sys_time"}
    /\ uq_before = EntitiesOfTypes(<<"sys_time", "sys_number">>)
    /\ uq_entities = <<[start |-> 1, end |-> 1, type |-> "sys_number"]>>

(***************************************************************************)
(* Claims about the span selection                                         *)
(***************************************************************************)
\* C10: the selected spans are pairwise non-overlapping, each is one of the
\* input spans, and every input span that was not selected overlaps at least
\* one selected span.
C10_SelectionNonOverlappingMaximal ==
    sp_pc = "done" =>
        /\ \A i, j \in 1..Len(sp_selected) :
              i # j => ~has_overlap(sp_selected[i], sp_selected[j])
        /\ Range(sp_selected) \subseteq Range(sp_input)
        /\ \A s \in Range(sp_input) \ Range(sp_selected) :
              \E t \in Range(sp_selected) : has_overlap(s, t)

\* C10 witness: three input spans of which two are kept and one, which
\* overlaps a kept span, is discarded
C10_Witness ==
    /\ sp_pc = "done"
    /\ Cardinality(Range(sp_input)) = 3
    /\ Len(sp_selected) = 2
    /\ \E s \in Range(sp_input) \ Range(sp_selected) :
          \E t \in Range(sp_selected) : has_overlap(s, t)

(***************************************************************************)
(* Claims about the AnnotationDriver                                       *)
(***************************************************************************)
\* the lines of a file that load_query parses, in file order
DrParseable(lines) == SelectSeq(lines, LAMBDA line : line.markup = "ok")

DrBadCount(lines) == Cardinality({k \in 1..Len(lines) : lines[k].markup = "bad"})

DrUntouched(path) ==
    /\ dr_reads[path] = 0
    /\ dr_writes[path] = 0
    /\ dr_content[path] = dr_orig[path]

\* the complete transformed content of a file whose transform loop has ended
DrHoldsTransformed(path) ==
    /\ dr_final[path] # <<>>
    /\ Len(dr_content[path]) = Len(dr_final[path][1])
    /\ \A k \in 1..Len(dr_content[path]) :
          dr_content[path][k] = [markup |-> "ok", entities |-> dr_final[path][1][k].entities]

\* C5: when the rule list of the requested action is empty or missing from
\* the effective config, the call logs a warning and returns normally, builds
\* no file map and reads and writes no example file.
C5_NoRulesWarnsAndReturns ==
    (/\ dr_pc \notin {"idle", "init"}
     /\ \/ dr_config.rules_key \in {"absent", "none"}
        \/ dr_config.rules = <<>>)
        => /\ dr_pc = "returned"
           /\ dr_warnings = 1
           /\ ~dr_map_built
           /\ \A path \in PathSet : DrUntouched(path)

\* C6: loading a file leaves out every line whose markup fails to parse, logs
\* one warning for it, loads every other line in file order and raises
\* nothing; the file written back holds one serialized example per parseable
\* line (for unannotate: that line's example after _unannotate_query) and
\* nothing for an unparseable line.
C6_BadLinesDroppedOnly ==
    /\ dr_pc = "raised" => \A path \in PathSet : dr_reads[path] = 0
    /\ \A path \in PathSet :
          /\ dr_reads[path] = 1 => dr_skipped[path] = DrBadCount(dr_orig[path])
          /\ dr_reads[path] = 0 => dr_skipped[path] = 0
    /\ dr_pc = "transform" =>
          /\ Len(dr_queries) = Len(DrParseable(dr_orig[DrPath]))
          /\ \A k \in dr_k..Len(dr_queries) :
                dr_queries[k].entities = DrParseable(dr_orig[DrPath])[k].entities
    /\ \A path \in PathSet :
          dr_writes[path] = 1 =>
             /\ Len(dr_content[path]) = Len(DrParseable(dr_orig[path]))
             /\ \A k \in 1..Len(dr_content[path]) :
                   /\ dr_content[path][k].markup = "ok"
                   /\ dr_action = "unannotate" =>
                         dr_content[path][k].entities =
                            unannotate_query(DrParseable(dr_orig[path])[k].entities,
                                             dr_map[path], dr_config.supported_only,
                                             DrSupported)

\* C6 witness: a completed run that wrote a file whose first line does not
\* parse and whose second line does: one line is written back
C6_Witness ==
    /\ dr_pc = "returned"
    /\ \E path \in PathSet :
          /\ dr_writes[path] = 1
          /\ Len(dr_orig[path]) = 2
          /\ dr_orig[path][1].markup = "bad"
          /\ dr_orig[path][2].markup = "ok"
          /\ dr_skipped[path] = 1
          /\ Len(dr_content[path]) = 1

\* C7: in a run that completes, a file whose mapped entity list is non-empty
\* is read once and written exactly once, and a file whose mapped entity list
\* is empty is neither read nor written; no file is ever written more than
\* once, and a file is written only after every example loaded from it has
\* been transformed.
C7_OneWritePerSelectedFile ==
    /\ \A path \in PathSet :
          /\ dr_reads[path] <= 1
          /\ dr_writes[path] <= 1
          /\ dr_writes[path] = 1 =>
                /\ dr_final[path] # <<>>
                /\ dr_ntrans[path] = Len(dr_final[path][1])
          /\ (dr_map_built /\ dr_map[path] = <<>>) => DrUntouched(path)
    /\ (dr_pc = "returned" /\ dr_map_built) =>
          \A path \in PathSet :
             dr_map[path] # <<>> => dr_reads[path] = 1 /\ dr_writes[path] = 1

\* C7 witness: a completed run in which one file with two examples was
\* selected and written once, and the other file, which is not empty, has an
\* empty mapped list and was left alone
C7_Witness ==
    /\ dr_pc = "returned"
    /\ \E p, q \in PathSet :
          /\ dr_map[p] # <<>>
          /\ dr_ntrans[p] = 2
          /\ dr_writes[p] = 1
          /\ dr_map[q] = <<>>
          /\ dr_orig[q] # <<>>
          /\ DrUntouched(q)

\* C8: files are processed one after another: a file is read only after the
\* selected file before it has been written, so at every point of the run
\* (wherever it may stop) every selected file before the one being processed
\* holds its complete transformed content and every selected file after it
\* still holds its original content.
C8_FilesProcessedSequentially ==
    dr_map_built =>
        \A j \in 1..Len(dr_path_list) :
            /\ j < dr_idx =>
                  /\ dr_writes[dr_path_list[j]] = 1
                  /\ DrHoldsTransformed(dr_path_list[j])
            /\ j > dr_idx => DrUntouched(dr_path_list[j])
            /\ (j > 1 /\ dr_reads[dr_path_list[j]] > 0) =>
                  dr_writes[dr_path_list[j - 1]] = 1

\* C8 witness: the second selected file is inside its persist step while the
\* first selected file holds transformed content that differs from its
\* original content
C8_Witness ==
    /\ dr_pc = "dump"
    /\ Len(dr_path_list) = 2
    /\ dr_idx = 2
    /\ DrHoldsTransformed(dr_path_list[1])
    /\ dr_content[dr_path_list[1]] # dr_orig[dr_path_list[1]]
    /\ dr_orig[dr_path_list[2]] # <<>>

\* C9 (as claimed): at every point of a run each file's content is its
\* complete original content or its complete transformed content, never empty
\* or partial.
C9_WriteBackAtomic ==
    \A path \in PathSet :
        \/ dr_content[path] = dr_orig[path]
        \/ DrHoldsTransformed(path)

DrProperPrefix(lines, all) ==
    /\ Len(lines) < Len(all)
    /\ \A k \in 1..Len(lines) : lines[k] = all[k]

\* C9 (amended): each file's content is its complete original content until
\* its persist step opens it, its complete transformed content once the
\* write has completed, and in between, only for the file inside its persist
\* step, a proper prefix (empty right after the open) of its transformed content.
C9_WriteBackTruncatesThenWrites ==
    \A path \in PathSet :
        \/ dr_content[path] = dr_orig[path]
        \/ DrHoldsTransformed(path)
        \/ /\ dr_pc = "dump"
           /\ path = DrPath
           /\ dr_final[path] # <<>>
           /\ DrProperPrefix(dr_content[path],
                             [k \in 1..Len(dr_final[path][1]) |->
                                [markup |-> "ok",
                                 entities |-> dr_final[path][1][k].entities]])

\* C9 witness: a file inside its persist step that is empty on disk although
\* both its original and its transformed content have lines
C9_Witness ==
    /\ dr_pc = "dump"
    /\ dr_content[DrPath] = <<>>
    /\ dr_orig[DrPath] # <<>>
    /\ dr_queries # <<>>

(***************************************************************************)
(* MultiLingualAnnotator.parse against the span-based resolver             *)
(***************************************************************************)
\* the inclusive character spans of a list of entity dictionaries
inclusive_spans(entities) ==
    [k \in 1..Len(entities) |-> item_to_query_entity(entities[k])]

PaComposite ==
    pa_pc = "done" /\ pa_in.variant = "multilingual" /\ pa_in.language # "en"

\* C11: for a non-English language the composite recognizer's result is
\* resolve_conflicts(current = the model recognizer's output, candidate = the
\* rule-based output, overwrite = FALSE) on the entities' inclusive spans: the
\* model entities in order, then exactly the rule-based entities whose
\* inclusive span shares no character with a model entity's.
C11_CompositeEqualsSpanResolver ==
    PaComposite =>
        inclusive_spans(pa_out) =
            resolve_conflicts(
                inclusive_spans(spacy_parse(pa_in.model, pa_in.entity_types)),
                inclusive_spans(no_translation_duckling_parse(pa_in.rule,
                                                              pa_in.entity_types)),
                FALSE)


(***************************************************************************)
(* The entity_types filter of parse()                                      *)
(***************************************************************************)
\* the detections of the call turned into entity dictionaries, unfiltered: what
\* the variant returns when no type filter is applied
PaUnfiltered ==
    LET converted == [k \in 1..Len(pa_in.rule) |->
                         duckling_item_to_entity_dict(pa_in.rule[k])]
    IN  CASE pa_in.variant = "spacy" -> pa_in.model
          [] pa_in.variant = "no_translation" -> converted
          [] pa_in.variant = "translation" ->
               LET aligned == align_entities(pa_in.en_entities, pa_in.rule, <<>>)
               IN  [k \in 1..Len(aligned) |-> duckling_item_to_entity_dict(aligned[k])]
          [] pa_in.variant = "multilingual" /\ pa_in.language = "en" -> pa_in.model
          [] OTHER -> resolve_conflicts_entity_dicts(pa_in.model, converted)

\* C12: for every recognizer variant, a parse() called with a non-empty
\* entity_types list returns only entities whose type is a member of the list,
\* and a parse() called with entity_types = None applies no type filter.
C12_ParseFiltersByEntityTypes ==
    pa_pc = "done" =>
        /\ (~pa_in.entity_types.none /\ pa_in.entity_types.list # <<>>) =>
              \A k \in 1..Len(pa_out) : pa_out[k].dim \in Range(pa_in.entity_types.list)
        /\ pa_in.entity_types.none => pa_out = PaUnfiltered

\* C12 witness: a duckling variant called with a one-type list has detected two
\* entities, dropped the one of the other type and returned the one of the type
C12_Witness ==
    /\ pa_pc = "done"
    /\ pa_in.variant = "no_translation"
    /\ pa_in.entity_types = [none |-> FALSE, list |-> <<"sys_time">>]
    /\ Len(pa_in.rule) = 2
    /\ Len(pa_out) = 1

(***************************************************************************)
(* Entity-field parsing                                                    *)
(***************************************************************************)
\* text without its leading and trailing white space
Trimmed(text) ==
    LET inked == {k \in 1..Len(text) : text[k] # " "}
    IN  IF inked = {} THEN <<>>
        ELSE SubSeq(text,
                    CHOOSE k \in inked : \A j \in inked : k <= j,
                    CHOOSE k \in inked : \A j \in inked : j <= k)

\* the pieces of text between its "|" characters, in order of appearance, trimmed
TrimmedTokens(text) ==
    LET bars == {k \in 1..Len(text) : text[k] = "|"}
        \* position of the n-th "|"; 0 before the text, Len + 1 after it
        bar(n) == IF n = 0 THEN 0
                  ELSE IF n > Cardinality(bars) THEN Len(text) + 1
                  ELSE CHOOSE k \in bars : Cardinality({b \in bars : b <= k}) = n
    IN  [n \in 1..(Cardinality(bars) + 1) |->
            Trimmed(SubSeq(text, bar(n - 1) + 1, bar(n) - 1))]

EfStripped == Trimmed(ef_in.field)
EfTokens == TrimmedTokens(SelectSeq(ef_in.field, LAMBDA ch : ch # "(" /\ ch # ")"))
EfValid(token) == str_lower(token) \in ef_in.supported

\* C13: _get_entities returns the wildcard sentinel when the stripped field is
\* "*", ".*" or ".+"; otherwise it returns, in order of appearance, exactly the
\* trimmed tokens (parentheses removed, split on "|") whose lower-cased form is
\* a supported entity type; every other token costs one warning and the call
\* always returns.
C13_EntityFieldParsing ==
    /\ ef_pc \in {"idle", "start", "done"}
    /\ ef_pc = "done" =>
         IF EfStripped \in {<<"*">>, <<".", "*">>, <<".", "+">>}
         THEN ef_out.entities = << <<"*">> >>
         ELSE /\ ef_out.entities = SelectSeq(EfTokens, EfValid)
              /\ ef_out.warnings = Len(EfTokens) - Len(ef_out.entities)

\* C13 witness: a field in parentheses with two tokens around a "|": the
\* upper-case spelling of the supported type, kept as written, and an
\* unsupported name, dropped with a warning
C13_Witness ==
    /\ ef_pc = "done"
    /\ ef_in.field = <<"(", "T", "|", "x">>
    /\ ef_in.supported = {<<"t">>}
    /\ ef_out = [entities |-> << <<"T">> >>, warnings |-> 1]

(***************************************************************************)
(* A rule whose path pattern does not compile                              *)
(***************************************************************************)
\* C14: when the pattern of some rule of the active rule list does not compile,
\* annotate()/unannotate() ends with an error raised to the caller, no file map
\* has been returned and no example file has been read or written.
C14_BadPatternFailsFast ==
    (/\ dr_pc \notin {"idle", "init"}
     /\ dr_config.rules_key = "list"
     /\ \E k \in 1..Len(dr_config.rules) : ~dr_config.rules[k].compiles)
        => /\ dr_pc = "raised"
           /\ ~dr_map_built
           /\ \A path \in PathSet : DrUntouched(path)

\* C14 witness: the call has raised on a list whose first rule compiles and
\* selects every file, whose second rule does not compile, with a file that
\* holds examples
C14_Witness ==
    /\ dr_pc = "raised"
    /\ dr_config.rules_key = "list"
    /\ Len(dr_config.rules) = 2
    /\ dr_config.rules[1].compiles /\ dr_config.rules[1].matches = PathSet
    /\ ~dr_config.rules[2].compiles
    /\ \E path \in PathSet : dr_orig[path] # <<>>

(***************************************************************************)
(* unannotate(unannotate_all=True)                                         *)
(***************************************************************************)
\* C20: unannotate(unannotate_all=True) does not raise, whatever rules and
\* whatever unannotate_supported_entities_only value self.config holds, and
\* once it has returned every example file holds its parseable examples, each
\* without any entity, supported by the recognizer or not.
C20_UnannotateAllRemovesEverything ==
    (dr_action = "unannotate" /\ dr_call.unannotate_all) =>
        /\ dr_pc # "raised"
        /\ dr_pc = "returned" =>
              \A path \in PathSet :
                 /\ Len(dr_content[path]) = Len(DrParseable(dr_orig[path]))
                 /\ \A k \in 1..Len(dr_content[path]) :
                       dr_content[path][k] = [markup |-> "ok", entities |-> <<>>]

\* C20 witness: a returned unannotate_all call on an annotator configured with
\* unannotate_supported_entities_only = True and no 'unannotate' key, over a
\* file whose example held a supported and an unsupported entity
C20_Witness ==
    /\ dr_action = "unannotate" /\ dr_call.unannotate_all
    /\ dr_pc = "returned"
    /\ dr_call.self_config.supported_only
    /\ dr_call.self_config.rules_key = "absent"
    /\ \E path \in PathSet :
          /\ Len(dr_orig[path]) = 1
          /\ Len(dr_orig[path][1].entities) = 2
          /\ dr_orig[path][1].entities[2].type \notin DrSupported
          /\ dr_content[path] = <<[markup |-> "ok", entities |-> <<>>]>>

(***************************************************************************)
(* The percent heuristic                                                   *)
(***************************************************************************)
SyCalled(heuristic) == sy_in.heuristic = heuristic /\ sy_pc # "start"

\* the number candidates of the call, in the order the resolver returned them
SyNumbers ==
    SelectSeq(sy_in.candidates,
              LAMBDA c : c.dim = "number" /\ c.value.holds = "number")

\* the numbers a/b and c/d are equal
SameNumber(a, b, c, d) == a * d = c * b

\* C15: percent resolution never raises, and it drops the entity exactly when
\* the resolver gave no number candidate: with a non-empty candidate list that
\* holds no number the call returns None.
C15_PercentDropsOnlyWithoutNumber ==
    SyCalled("percent") =>
        /\ sy_pc = "done"
        /\ sy_out = <<>> <=> SyNumbers = <<>>

\* a number candidate whose value has a fractional part
SyFractional(c) == c.value.num % c.value.den # 0

\* C16: for a percent entity with at least one number candidate the resolved
\* value is the first fractional number candidate's value divided by 100 if
\* some number candidate is fractional, whatever whole numbers precede it, and
\* else the largest whole number candidate's value divided by 100.
C16_PercentValue ==
    (SyCalled("percent") /\ SyNumbers # <<>>) =>
        /\ sy_pc = "done"
        /\ Len(sy_out) = 1
        /\ sy_out[1].value.holds = "number"
        /\ LET fractional == {k \in 1..Len(SyNumbers) : SyFractional(SyNumbers[k])}
               resolved == sy_out[1].value
           IN  IF fractional # {}
               THEN LET first == SyNumbers[CHOOSE k \in fractional :
                                              \A j \in fractional : k <= j].value
                    IN  SameNumber(resolved.num, resolved.den, first.num, first.den * 100)
               ELSE \E k \in 1..Len(SyNumbers) :
                       /\ \A j \in 1..Len(SyNumbers) :
                             SyNumbers[j].value.num <= SyNumbers[k].value.num
                       /\ SameNumber(resolved.num, resolved.den,
                                     SyNumbers[k].value.num, 100)

\* C16 witness: the candidates 50 and then 50.5 give the value 0.505
C16_Witness ==
    /\ SyCalled("percent") /\ sy_pc = "done"
    /\ Len(SyNumbers) = 2
    /\ SyNumbers[1].value.num = 50 /\ SyNumbers[1].value.den = 1
    /\ SyNumbers[2].value.num = 101 /\ SyNumbers[2].value.den = 2
    /\ Len(sy_out) = 1
    /\ SameNumber(sy_out[1].value.num, sy_out[1].value.den, 505, 1000)

(***************************************************************************)
(* The temporal heuristic: largest-substring match                         *)
(***************************************************************************)
\* the time-related types the call allows
SyAllowedTimeTypes ==
    IF sy_in.entity_types.none \/ sy_in.entity_types.list = <<>>
    THEN {"sys_duration", "sys_interval", "sys_time"}
    ELSE {"sys_duration", "sys_interval", "sys_time"} \cap Range(sy_in.entity_types.list)

\* the candidates of an allowed time-related type: those with the raw entity's
\* exact text, those whose text occurs in the raw entity's text
SyExactTime ==
    {k \in 1..Len(sy_in.candidates) :
        /\ get_time_entity_type(sy_in.candidates[k]) \in SyAllowedTimeTypes
        /\ sy_in.candidates[k].body = sy_in.entity.body}
SySubstringTime ==
    {k \in 1..Len(sy_in.candidates) :
        /\ get_time_entity_type(sy_in.candidates[k]) \in SyAllowedTimeTypes
        /\ is_substring(sy_in.candidates[k].body, sy_in.entity.body)}

\* C17: for a temporal raw entity without an exact-text candidate of an allowed
\* type, if some candidate of an allowed temporal type has a text that occurs in
\* the raw text, the emitted entity has one such candidate's text and value,
\* that candidate's classified type, and start and end equal to the raw
\* entity's start plus the candidate's local start and end; if there is no such
\* candidate, no entity is emitted.
C17_TemporalSubstringMatch ==
    (SyCalled("time") /\ SyExactTime = {}) =>
        /\ sy_pc = "done"
        /\ IF SySubstringTime = {} THEN sy_out = <<>>
           ELSE /\ Len(sy_out) = 1
                /\ \E k \in SySubstringTime :
                     LET chosen == sy_in.candidates[k]
                     IN  /\ sy_out[1].body = chosen.body
                         /\ sy_out[1].value = chosen.value
                         /\ sy_out[1].dim = get_time_entity_type(chosen)
                         /\ sy_out[1].start = sy_in.entity.start + chosen.start
                         /\ sy_out[1].end = sy_in.entity.start + chosen.end

\* C17 witness: the raw text "n15" ("nearly 15 minutes" in small) with the one
\* duration candidate "15" gives a sys_duration entity that covers exactly "15"
C17_Witness ==
    /\ SyCalled("time") /\ sy_pc = "done"
    /\ sy_in.entity.body = <<"n", "1", "5">>
    /\ Len(sy_in.candidates) = 1
    /\ sy_in.candidates[1].dim = "duration"
    /\ sy_in.candidates[1].body = <<"1", "5">>
    /\ Len(sy_out) = 1
    /\ sy_out[1].dim = "sys_duration"
    /\ sy_out[1].body = <<"1", "5">>
    /\ sy_out[1].start = sy_in.entity.start + 1
    /\ sy_out[1].end = sy_in.entity.end

(***************************************************************************)
(* The person heuristic                                                    *)
(***************************************************************************)
SyPossessive ==
    /\ Len(sy_in.entity.body) >= 2
    /\ sy_in.entity.body[Len(sy_in.entity.body) - 1] = "'"
    /\ sy_in.entity.body[Len(sy_in.entity.body)] = "s"

\* C18: the person heuristic always emits the entity, typed as the canonical
\* person type and with its start unchanged; for English text that ends with
\* "'s" the emitted text and value are the text without the suffix and the end
\* is reduced by 2; in any other language, and for English text without the
\* suffix, text, value and end are those of the raw entity.
C18_PersonPossessive ==
    SyCalled("person") =>
        /\ sy_pc = "done"
        /\ Len(sy_out) = 1
        /\ sy_out[1].dim = "sys_person"
        /\ sy_out[1].start = sy_in.entity.start
        /\ IF sy_in.language = "en" /\ SyPossessive
           THEN /\ sy_out[1].body \o <<"'", "s">> = sy_in.entity.body
                /\ sy_out[1].value.holds = "text"
                /\ sy_out[1].value.text = sy_out[1].body
                /\ sy_out[1].end = sy_in.entity.end - 2
           ELSE /\ sy_out[1].body = sy_in.entity.body
                /\ sy_out[1].value = sy_in.entity.value
                /\ sy_out[1].end = sy_in.entity.end

\* C18 witness: the English text "a's" is emitted as "a" with its end reduced
\* by 2
C18_Witness ==
    /\ SyCalled("person") /\ sy_pc = "done"
    /\ sy_in.language = "en"
    /\ sy_in.entity.body = <<"a", "'", "s">>
    /\ Len(sy_out) = 1
    /\ sy_out[1].body = <<"a">>
    /\ sy_out[1].end = sy_in.entity.end - 2

(***************************************************************************)
(* The quantity heuristic                                                  *)
(***************************************************************************)
\* the distance and quantity candidates whose text occurs in the raw entity's
\* text (those with its exact text among them)
SySubstringQuantity ==
    {k \in 1..Len(sy_in.candidates) :
        /\ sy_in.candidates[k].dim \in {"distance", "quantity"}
        /\ is_substring(sy_in.candidates[k].body, sy_in.entity.body)}

\* C19: quantity resolution returns an entity for every candidate list, the
\* empty one included, and when no distance or quantity candidate matches the
\* text exactly or as a substring the entity keeps its text, span and value
\* and is retyped sys_other-quantity.
C19_QuantityNeverDropped ==
    SyCalled("quantity") =>
        /\ sy_pc = "done"
        /\ Len(sy_out) = 1
        /\ SySubstringQuantity = {} =>
              sy_out[1] = [sy_in.entity EXCEPT !.dim = "sys_other-quantity"]

\* C19 witness: the resolver's only candidate for the text is a number; the
\* entity is returned unchanged but for its type
C19_Witness ==
    /\ SyCalled("quantity") /\ sy_pc = "done"
    /\ Len(sy_in.candidates) = 1
    /\ sy_in.candidates[1].dim = "number"
    /\ Len(sy_out) = 1
    /\ sy_out[1].dim = "sys_other-quantity"
    /\ sy_out[1].body = sy_in.entity.body
    /\ sy_out[1].start = sy_in.entity.start /\ sy_out[1].end = sy_in.entity.end

(***************************************************************************)
(* The temporal heuristic: type priority and exact match                   *)
(***************************************************************************)
\* the rank of a time-related type in the priority order duration, interval,
\* time
SyTimeRank(type) ==
    CASE type = "sys_duration" -> 1
      [] type = "sys_interval" -> 2
      [] OTHER -> 3

\* the substring candidates of the highest-priority allowed type that has one
SyPrioritySubstringTime ==
    {k \in SySubstringTime :
        \A j \in SySubstringTime :
            SyTimeRank(get_time_entity_type(sy_in.candidates[k]))
                <= SyTimeRank(get_time_entity_type(sy_in.candidates[j]))}

\* C21: in the temporal largest-substring fallback the entity is resolved to
\* the highest-priority allowed type (duration, interval, time) that has a
\* substring candidate, from the longest candidate of that type, the first
\* seen among those of equal length.
C21_SubstringTypePriority ==
    (SyCalled("time") /\ SyExactTime = {} /\ SySubstringTime # {}) =>
        /\ Len(sy_out) = 1
        /\ \E k \in SyPrioritySubstringTime :
              /\ \A j \in SyPrioritySubstringTime :
                    \/ Len(sy_in.candidates[j].body) < Len(sy_in.candidates[k].body)
                    \/ /\ Len(sy_in.candidates[j].body) = Len(sy_in.candidates[k].body)
                       /\ k <= j
              /\ sy_out[1].dim = get_time_entity_type(sy_in.candidates[k])
              /\ sy_out[1].body = sy_in.candidates[k].body
              /\ sy_out[1].value = sy_in.candidates[k].value

\* C22: in temporal resolution, when some candidate has an allowed classified
\* type and the raw entity's exact text, the first such candidate in the
\* resolver's order gives the entity its type and value, whatever the types'
\* priorities and whatever substring candidates there are, and the entity's
\* text and span are unchanged.
C22_ExactMatchByCandidateOrder ==
    (SyCalled("time") /\ SyExactTime # {}) =>
        /\ sy_pc = "done"
        /\ Len(sy_out) = 1
        /\ LET first == sy_in.candidates[CHOOSE k \in SyExactTime :
                                            \A j \in SyExactTime : k <= j]
           IN  /\ sy_out[1].dim = get_time_entity_type(first)
               /\ sy_out[1].value = first.value
        /\ sy_out[1].body = sy_in.entity.body
        /\ sy_out[1].start = sy_in.entity.start
        /\ sy_out[1].end = sy_in.entity.end

\* C22 witness: a time candidate and then a duration candidate, both with the
\* raw entity's text: the entity becomes a sys_time entity
C22_Witness ==
    /\ SyCalled("time") /\ sy_pc = "done"
    /\ Len(sy_in.candidates) = 2
    /\ sy_in.candidates[1].body = sy_in.entity.body
    /\ sy_in.candidates[2].body = sy_in.entity.body
    /\ get_time_entity_type(sy_in.candidates[1]) = "sys_time"
    /\ get_time_entity_type(sy_in.candidates[2]) = "sys_duration"
    /\ Len(sy_out) = 1
    /\ sy_out[1].dim = "sys_time"
    /\ sy_out[1].value = sy_in.candidates[1].value

(***************************************************************************)
(* The quantity heuristic: largest-substring match                         *)
(***************************************************************************)
SyExactQuantity ==
    {k \in SySubstringQuantity : sy_in.candidates[k].body = sy_in.entity.body}

\* C23: a quantity raw entity without an exact-text distance or quantity
\* candidate, but with one whose text is a proper substring of the raw text, is
\* emitted with such a candidate's text, value and offset span and with the
\* canonical system type of the candidate.
C23_QuantitySubstringMatch ==
    (SyCalled("quantity") /\ SyExactQuantity = {} /\ SySubstringQuantity # {}) =>
        /\ Len(sy_out) = 1
        /\ \E k \in SySubstringQuantity :
              LET chosen == sy_in.candidates[k]
              IN  /\ sy_out[1].body = chosen.body
                  /\ sy_out[1].value = chosen.value
                  /\ sy_out[1].start = sy_in.entity.start + chosen.start
                  /\ sy_out[1].end = sy_in.entity.start + chosen.end
                  /\ sy_out[1].dim = annotator_to_sys_entity(chosen.dim)

(***************************************************************************)
(* The money heuristic                                                     *)
(***************************************************************************)
\* the character right before the raw span is a currency symbol that is the
\* first character of the sentence or follows a space
SySymbolPrecedes ==
    /\ sy_in.entity.start >= 1
    /\ sy_in.sentence[sy_in.entity.start] \in Range(CURRENCY_SYMBOLS)
    /\ \/ sy_in.entity.start = 1
       \/ sy_in.sentence[sy_in.entity.start - 1] = " "

\* C24: the money entity that exact-match resolution emits (resolution changes
\* neither span nor text) has the raw start decreased by exactly 1 if the
\* character right before the raw span is a currency symbol at index 0 or after
\* a space, and the raw start otherwise; the start is never below 0, the end is
\* the raw end and the text is sentence[start:end].
C24_MoneySpanExtension ==
    (SyCalled("money") /\ sy_out # <<>>) =>
        /\ Len(sy_out) = 1
        /\ sy_out[1].start =
              IF SySymbolPrecedes THEN sy_in.entity.start - 1 ELSE sy_in.entity.start
        /\ sy_out[1].start >= 0
        /\ sy_out[1].end = sy_in.entity.end
        /\ sy_out[1].body = SubSeq(sy_in.sentence, sy_out[1].start + 1, sy_out[1].end)

\* C24 witness: in " $5" the raw span of "5" is extended over the symbol
C24_Witness ==
    /\ SyCalled("money") /\ sy_pc = "done"
    /\ sy_in.sentence = <<" ", "$", "5">>
    /\ sy_in.entity.start = 2 /\ sy_in.entity.end = 3
    /\ Len(sy_out) = 1
    /\ sy_out[1].start = 1 /\ sy_out[1].end = 3
    /\ sy_out[1].body = <<"$", "5">>

(***************************************************************************)
(* ModelRecognizer.parse: labels and emitted types                         *)
(***************************************************************************)
\* C25: parse never emits a raw entity labelled misc, and a raw entity labelled
\* per or persName is emitted with the canonical person type sys_person.
C25_MiscDroppedPersonNormalized ==
    SyCalled("parse") =>
        /\ sy_in.label = "MISC" => sy_out = <<>>
        /\ sy_in.label \in {"PER", "persName"} =>
              /\ Len(sy_out) = 1
              /\ sy_out[1].dim = "sys_person"

\* C28: every entity type that parse(sentence, entity_types=None) emits for a
\* raw entity carrying a label of the model's inventory is a member of
\* supported_entity_types.
C28_EmittedTypesAreSupported ==
    (SyCalled("parse") /\ sy_in.entity_types.none) =>
        \A k \in 1..Len(sy_out) :
            sy_out[k].dim \in spacy_supported_entity_types(sy_in.labels, sy_in.language)

\* C29: every entity that parse emits has a non-empty text and an exclusive end
\* greater than its start.
C29_EmittedEntitiesNonEmpty ==
    SyCalled("parse") =>
        \A k \in 1..Len(sy_out) :
            /\ sy_out[k].body # <<>>
            /\ sy_out[k].start < sy_out[k].end

(***************************************************************************)
(* TranslationBridgeRecognizer: alignment of the English entities          *)
(***************************************************************************)
\* the candidates with the type of English entity e: those of equal value,
\* those whose text is the translation of the entity's text
PaValueMatches(e) ==
    {k \in 1..Len(pa_in.rule) :
        /\ pa_in.rule[k].entity_type = e.dim
        /\ pa_in.rule[k].value = e.value}
PaTextMatches(e) ==
    {k \in 1..Len(pa_in.rule) :
        /\ pa_in.rule[k].entity_type = e.dim
        /\ pa_in.rule[k].body = translate_to_language(e.body)}

\* C26: an English entity contributes at most one output entity: a longest
\* candidate among those of its type and value if there is one, whatever
\* candidates match its translated text; else the first candidate of its type
\* whose text is its translated text; else nothing.
C26_AlignmentPrefersValueMatch ==
    (pa_pc = "done" /\ pa_in.variant = "translation" /\ Len(pa_in.en_entities) = 1) =>
        LET e == pa_in.en_entities[1]
        IN  IF PaValueMatches(e) # {}
            THEN \E k \in PaValueMatches(e) :
                    /\ \A j \in PaValueMatches(e) :
                          Len(pa_in.rule[j].body) <= Len(pa_in.rule[k].body)
                    /\ pa_out = <<duckling_item_to_entity_dict(pa_in.rule[k])>>
            ELSE IF PaTextMatches(e) # {}
            THEN LET first == CHOOSE k \in PaTextMatches(e) :
                                  \A j \in PaTextMatches(e) : k <= j
                 IN  pa_out = <<duckling_item_to_entity_dict(pa_in.rule[first])>>
            ELSE pa_out = <<>>

(***************************************************************************)
(* Annotating twice                                                        *)
(***************************************************************************)
\* C27: a second _annotate_query call on the same example, with the same
\* recognizer output and the same overwrite value, leaves the entity list of
\* the first call, in the same order, for both overwrite values.
C27_AnnotateIdempotent ==
    [][rq_pc = "done" /\ rq_pc' = "again" => rq_entities' = rq_entities]_vars

\* C27 witness: a second call has ended on an example whose first call has both
\* dropped one of the two lists' entities and added one
C27_Witness ==
    /\ rq_pc = "again"
    /\ Len(rq_before) >= 1 /\ Len(RqAnnotated) >= 1
    /\ Len(rq_entities) > Len(RqBase)
    /\ Len(rq_entities) < Len(rq_before) + Len(RqAnnotated)

(***************************************************************************)
(* Entity-type tokens and their lower-cased form                           *)
(***************************************************************************)
\* C30: in unannotate, a token of the rule that passes the case-insensitive
\* validation acts as its lower-cased form: the example's entities of that
\* type are removed.
C30_ValidTokenActsAsLowerCased ==
    uq_pc = "done" =>
        \A k \in 1..Len(uq_remove) :
            valid_entity_check(uq_remove[k], uq_supported) =>
                \A j \in 1..Len(uq_entities) : uq_entities[j].type # lower(uq_remove[k])

====
